---- MODULE Spec2Model ----
(***************************************************************************)
(* AIS + ADS-B to APRS bridge (src/AISandAPRSbridge.py).                   *)
(*                                                                         *)
(* The two pipelines (adsb_worker, ais_worker) are independent threads     *)
(* with private tables and a private APRS-IS connection each, so each is   *)
(* modelled by its own specification over its own variables:               *)
(*   SpecAdsb  adsb_worker: the SBS loop, one action per SBS record, the   *)
(*             TTL sweep that ends every loop iteration, and the clock;    *)
(*   SpecAis   ais_worker: one action per decoded static message or        *)
(*             position record;                                            *)
(*   SpecAisLines  ais_worker: one action per line of the AIS feed, from   *)
(*             parse_nmea through the decoders to the write.               *)
(*   SpecBurst adsb_worker in the burst run alone;                         *)
(*   SpecConn  connect_aprs of both workers against a server that comes    *)
(*             and goes;                                                   *)
(*   SpecFrag  parse_nmea alone, one action per call, on fragment lines;   *)
(*   SpecGui   ais_worker on decoded records together with the refresh     *)
(*             timer of the AIS monitor window.                            *)
(* A run of SpecAdsb fixes, in its initial state, the traffic the SBS feed *)
(* can deliver and the instants at which the clock is read (run).          *)
(*                                                                         *)
(* Conventions.                                                            *)
(*   - A dict is a function whose DOMAIN is its key set; a str is a        *)
(*     sequence of one-character strings; Python None is the empty         *)
(*     sequence, and an optional number v is the one-element sequence <<v>>.*)
(*   - Latitudes are integers in units of 1e-5 degree (ADS-B) or 1e-4      *)
(*     degree (AIS).  Every modelled position lies on the meridian of the  *)
(*     reference point, where the haversine formula reduces to             *)
(*     R * |dlat in radians|.                                              *)
(*   - time.time() is the variable clock (whole seconds).                  *)
(*   - Tracks are in tenths of a degree.                                   *)
(*   - A with-block on a lock is one step.                                 *)
(***************************************************************************)
EXTENDS Integers, Sequences, FiniteSets, TLC

None == <<>>
Some(v) == <<v>>
Val(o) == o[1]

Abs(x) == IF x < 0 THEN -x ELSE x

(* dict helpers *)
Has(d, k) == k \in DOMAIN d
Get(d, k) == IF k \in DOMAIN d THEN d[k] ELSE None
Put(d, k, v) == [x \in (DOMAIN d) \cup {k} |-> IF x = k THEN v ELSE d[x]]
Pop(d, k) == [x \in (DOMAIN d) \ {k} |-> d[x]]
EmptyDict == [x \in {} |-> None]

(***************************************************************************)
(* Program constants                                                       *)
(***************************************************************************)
MAX_PKTS_PER_SEC == 5
MIN_UPDATE_SEC == 5
MIN_MOVE_MI_X100 == 50
OBJECT_TTL_SEC == 300
LANDED_ALT_FT == 1000
LANDED_WAIT_SEC == 180
LAND_CLEAR_ALT == 1500
ADD_DISTANCE_MI == 35
CLEAR_DISTANCE_MI == 40
EPS_LATLON_E5 == 15
EPS_ALT_FT == 25
EPS_TRK_DEG == 3
EPS_GS_KT == 2
KBUF_LAT_E5 == 4294050
KBUF_LON_E5 == -7873220
\* 3958.8 * pi / 180 = 69.094 statute miles per degree of latitude, times 100
MI_PER_DEG_X100 == 6909
\* one mile in the unit of haversine_miles below (1e-7 mile)
MILE == 100000 * 100

JSON_REFRESH_SEC == 5

\* ais_worker
CENTER_LAT_E4 == 429000
CENTER_LON_E4 == -789000
MAX_RANGE_NM == 250
TELEPORT_MOVE_NM == 150
TELEPORT_TIME_SEC == 900
\* 3440.1 * pi / 180 = 60.04 nautical miles per degree of latitude, times 100
NM_PER_DEG_X100 == 6004
\* one nautical mile in the unit of haversine_nm below (1e-6 nm)
NM == 10000 * 100

(***************************************************************************)
(* Shared helpers                                                          *)
(***************************************************************************)
\* haversine_miles for two points of equal longitude, in units of 1e-7 mile:
\* a = sin(dphi/2)^2, so the result is R * |dphi|.
haversine_miles(lat1, lon1, lat2, lon2) == Abs(lat2 - lat1) * MI_PER_DEG_X100

\* haversine_nm for two points of equal longitude, in units of 1e-6 nm.  A
\* difference of more than 30 degrees counts as 30 degrees (1801 nm, beyond
\* every distance the result is compared with) to stay within 32 bits.
haversine_nm(lat1, lon1, lat2, lon2) ==
  LET d == Abs(lat2 - lat1) IN
  (IF d > 30 * 10000 THEN 30 * 10000 ELSE d) * NM_PER_DEG_X100

\* str.strip() of a string of characters
RECURSIVE lstrip(_)
lstrip(str) ==
  IF str # <<>> /\ Head(str) = " " THEN lstrip(Tail(str)) ELSE str
RECURSIVE rstrip(_)
rstrip(str) ==
  IF str # <<>> /\ str[Len(str)] = " "
  THEN rstrip(SubSeq(str, 1, Len(str) - 1)) ELSE str
strip(str) == rstrip(lstrip(str))

(* ------------------------- ADS-B naming -------------------------------- *)
LowerCase == <<"a","b","c","d","e","f","g","h","i","j","k","l","m",
               "n","o","p","q","r","s","t","u","v","w","x","y","z">>
UpperCase == <<"A","B","C","D","E","F","G","H","I","J","K","L","M",
               "N","O","P","Q","R","S","T","U","V","W","X","Y","Z">>
Digits == {"0","1","2","3","4","5","6","7","8","9"}

\* str.upper() on one character
upper(c) ==
  IF \E i \in 1..26 : LowerCase[i] = c
  THEN UpperCase[CHOOSE i \in 1..26 : LowerCase[i] = c]
  ELSE c

\* the characters _name_cleaner keeps: [A-Z0-9]
IsAZ09(c) == (\E i \in 1..26 : UpperCase[i] = c) \/ c \in Digits

\* s[:9].ljust(9)
RECURSIVE ljust(_, _)
ljust(s, w) == IF Len(s) >= w THEN s ELSE ljust(Append(s, " "), w)
first9(s) == ljust(SubSeq(s, 1, IF Len(s) < 9 THEN Len(s) ELSE 9), 9)

normalize_callsign(cs) ==
  IF cs = None THEN None
  ELSE LET n == SelectSeq([i \in 1..Len(cs) |-> upper(cs[i])], IsAZ09)
       IN IF n = <<>> THEN None ELSE n

name_from_callsign_or_hex(callsign, icao_hex) ==
  LET n == normalize_callsign(callsign)
  IN IF n # None THEN first9(n)
     ELSE first9(IF icao_hex = <<>> THEN <<"A","I","R","C","R","A","F","T">>
                 ELSE icao_hex)

(***************************************************************************)
(* Inputs of the ADS-B pipeline                                            *)
(***************************************************************************)
HexA == <<"A","B","C","1","2","3">>
HexB == <<"4","0","6","2","1","D">>
Hexes == {HexA, HexB}
\* "ual-1" normalises to "UAL1     "
Callsigns == {None, <<"u","a","l","-","1">>}
\* 10.0 mi, 35.9 mi and 40.8 mi north of the reference point
LatNear == KBUF_LAT_E5 + 14473
LatMid == KBUF_LAT_E5 + 52000
LatFar == KBUF_LAT_E5 + 59000
Lats == {LatNear, LatMid, LatFar}
Alts == {None, Some(LANDED_ALT_FT), Some(LAND_CLEAR_ALT), Some(LAND_CLEAR_ALT + 1)}
Trks == {None}
\* tracks in tenths of a degree: 0.9, 3.0 and 359.0
TurnTrks == {Some(9), Some(30), Some(3590)}
Gss == {None}

\* what parse_sbs returns for MSG,3 / MSG,4 lines with both coordinates;
\* callsign is msg["callsign"]
SbsMsgs(hexes, lats, alts) ==
  [icao : hexes, callsign : Callsigns, lat : lats, lon : {KBUF_LON_E5},
   alt : alts, trk : Trks, gs : Gss]

Cruise == Some(LAND_CLEAR_ALT + 1)

\* What fetch_aircraft_json returns (lines 227-233), by its shape:
\*   "none"   None: timeout, HTTP status other than 200, or no JSON
\*   "other"  JSON that is neither an object with an aircraft list nor a list
\*   "list"   an object with the aircraft list items, or the bare list items
\* An item is an aircraft object (obj) with its hex and flight, or a JSON
\* value that is not an object.
Aircraft(hex, flight) == [obj |-> TRUE, hex |-> hex, flight |-> flight]
Junk == [obj |-> FALSE, hex |-> <<>>, flight |-> <<>>]
NoBody == [kind |-> "none", items |-> <<>>]
OtherBody == [kind |-> "other", items |-> <<>>]
ListBody(items) == [kind |-> "list", items |-> items]
\* "abc123", flight "UAL2 "
HexALower == <<"a","b","c","1","2","3">>
Flight2 == <<"U","A","L","2"," ">>
Bodies ==
  { NoBody, OtherBody,
    ListBody(<<Aircraft(HexALower, Flight2)>>),
    ListBody(<<Aircraft(HexALower, <<>>)>>),
    ListBody(<<Aircraft(HexALower, Flight2), Junk>>),
    ListBody(<<Junk>>) }
\* the first instant of a run, and the per-second line counter's saturation
T0 == 1000
LineCap == 7
At(ds) == {T0 + d : d \in ds}

\* The runs: the traffic of each, its instants, and whether the lines written
\* per second are counted.
\*   burst  one aircraft moving in and out of range within two seconds
\*   pair   two aircraft whose callsigns collide, within one second
\*   dwell  one aircraft changing altitude over the landing dwell and the TTL
\*   quiet  one aircraft in cruise, the feed silent past the TTL
\*   turn   one aircraft in cruise changing its track after MIN_UPDATE_SEC
\*   climb  one aircraft landing, then climbing near the edge of the range
\*   json   one aircraft in cruise while dump1090's JSON endpoint answers;
\*          in the other runs it does not (fetch_aircraft_json returns None)
RunBurst ==
  [feed |-> SbsMsgs({HexA}, Lats, {Cruise}), instants |-> At({0, 1}),
   count |-> TRUE, json |-> {}]
RunPair ==
  [feed |-> SbsMsgs(Hexes, {LatNear, LatMid}, {Cruise}), instants |-> At({0}),
   count |-> FALSE, json |-> {}]
RunDwell ==
  [feed |-> SbsMsgs({HexA}, {LatNear}, Alts),
   instants |-> At({0, 1, LANDED_WAIT_SEC, OBJECT_TTL_SEC}), count |-> FALSE, json |-> {}]
RunQuiet ==
  [feed |-> SbsMsgs({HexA}, {LatNear}, {Cruise}),
   instants |-> At({0, 1, OBJECT_TTL_SEC, OBJECT_TTL_SEC + 1}), count |-> FALSE, json |-> {}]
RunJson ==
  [feed |-> SbsMsgs({HexA}, {LatNear}, {Cruise}),
   instants |-> At({0, JSON_REFRESH_SEC}), count |-> FALSE, json |-> Bodies]
RunTurn ==
  [feed |-> {[m EXCEPT !.trk = t] :
               m \in SbsMsgs({HexA}, {LatNear}, {Cruise}), t \in TurnTrks},
   instants |-> At({0, MIN_UPDATE_SEC}), count |-> FALSE, json |-> {}]
RunClimb ==
  [feed |-> {m \in SbsMsgs({HexA}, {LatNear, LatMid}, {Some(LANDED_ALT_FT), Cruise}) :
               m.callsign = None},
   instants |-> At({0, LANDED_WAIT_SEC}), count |-> FALSE, json |-> {}]
Runs == {RunBurst, RunPair, RunDwell, RunQuiet, RunJson, RunTurn, RunClimb}

VARIABLES
  run,            \* the traffic and the instants of this run (constant)
  aprs_up,        \* a write to the APRS-IS socket succeeds
  clock,          \* int(time.time())
  pc,             \* adsb_worker: "recv" (blocked in sbs.recv) or "lines"
  last_seen,      \* name -> time of the last record that reached line 436
  last_sent,      \* name -> [time, state, lat, lon, icao]
  low_alt_since,  \* name -> start of the low-altitude timer
  landed_block,   \* set of suppressed names
  hex_to_name,
  name_to_hex,
  aircraft,       \* the ADS-B view model, name -> row
  last_sec,
  sent_this_sec,
  out,            \* the lines the last step wrote to the APRS-IS socket
  sec_lines,      \* how many lines were written during the second clock
  first_sent,     \* the tracked names for whose track an update line was written
  low_run,        \* hex -> time of the first record of the aircraft's current
                  \* unbroken run of records with a known altitude <= LANDED_ALT_FT
  aprs_failed,    \* a write has raised on the APRS-IS socket adsb_worker holds
  meta_cache,     \* ICAO -> the flight of its metadata (None: no flight)
  last_json_poll,
  sbs_redial      \* the last step closed the SBS socket and called connect_sbs

VARIABLES
  ais_up,             \* ais_worker: a write to its APRS-IS socket succeeds
  ais_last_sec,       \* ais_worker's last_sec
  ais_sent_this_sec,  \* ais_worker's sent_this_sec
  last_good,          \* mmsi -> [lat, lon, time] of the last accepted fix
  name_cache,         \* mmsi -> vessel name
  vessels,            \* the AIS view model, mmsi -> row
  ais_out,            \* the lines the last step of ais_worker wrote
  ais_redial,         \* the last step of ais_worker closed its APRS-IS socket
                      \* and called connect_aprs
  frag_store,         \* (seq_id, channel) -> fragments awaited
  fixes               \* mmsi -> the last MaxFixes accepted fixes, oldest first

VARIABLES
  accepts,   \* the APRS-IS server accepts connections and writes
  conn_pc,   \* client tag -> where its worker is with its APRS-IS socket:
             \*   "socket" at the top of connect_aprs' loop, "login" connected,
             \*   "sleep" in a sleep, "ready" connect_aprs has returned
  nap,       \* client tag -> seconds left of the sleep
  wire       \* client tag -> the lines written on the socket it holds

VARIABLES
  gui_pc,    \* refresh of setup_ais_gui: "timer" before its snapshot copy,
             \*   "render" between the copy and the rows it inserts
  data,      \* refresh's list of row dicts, by mmsi: row is what the dict
             \*   reads now, shared whether it is still the dict vessels holds
  snapshot,  \* what vessels held when data was copied
  rows       \* the rows of the tree view, by mmsi

connVars == <<accepts, conn_pc, nap, wire>>

guiVars == <<gui_pc, data, snapshot, rows>>

adsbVars ==
  <<run, aprs_up, clock, pc, last_seen, last_sent, low_alt_since,
    landed_block, hex_to_name, name_to_hex, aircraft, last_sec, sent_this_sec,
    out, sec_lines, first_sent, low_run, aprs_failed, meta_cache,
    last_json_poll, sbs_redial>>

jsonVars == <<meta_cache, last_json_poll, sbs_redial>>

aisVars ==
  <<ais_up, ais_last_sec, ais_sent_this_sec, last_good, name_cache, vessels,
    ais_out, ais_redial, frag_store, fixes>>

vars == <<adsbVars, aisVars, connVars, guiVars>>

(***************************************************************************)
(* adsb_worker: the per-record handler (lines 329-525).                    *)
(* The handler is a chain of stages over the worker's tables, gathered in  *)
(* a record s; every stage returns the tables as it leaves them.           *)
(***************************************************************************)
Tables ==
  [last_seen |-> last_seen, last_sent |-> last_sent,
   low_alt_since |-> low_alt_since, landed_block |-> landed_block,
   hex_to_name |-> hex_to_name, name_to_hex |-> name_to_hex,
   aircraft |-> aircraft, last_sec |-> last_sec,
   sent_this_sec |-> sent_this_sec, out |-> <<>>, reconnect |-> FALSE,
   failed |-> aprs_failed, stale |-> FALSE]

\* the delete line make_adsb_aprs_object(name, lat, lon, ..., delete=True)
DelLine(name, lat) == [name |-> name, del |-> TRUE, lat |-> lat, icao |-> None]
\* the update line of lines 476-482
UpdLine(name, m) == [name |-> name, del |-> FALSE, lat |-> m.lat, icao |-> m.icao]

\* li["lat"] if li else msg["lat"]
DelLat(s, name, fallback) ==
  IF Has(s.last_sent, name) THEN s.last_sent[name].lat ELSE fallback

\* aprs.send is called on the socket the worker holds; stale records a call
\* on a socket on which a write has raised before
Attempt(s) == [s EXCEPT !.stale = @ \/ s.failed]

\* try: aprs.send(delete line) except: pass -- a failed write leaves no line,
\* and the worker keeps the socket
SendDelete(s, name, lat, ok) ==
  IF ok THEN [Attempt(s) EXCEPT !.out = Append(@, DelLine(name, lat))]
  ELSE [Attempt(s) EXCEPT !.failed = TRUE]

\* a range clear that forgets last_sent.pop
RangeClear_keeps_sent(s, tracked_name, cur, m, ok) ==
  LET s1 == SendDelete(s, tracked_name, DelLat(s, tracked_name, m.lat), ok)
  IN [s1 EXCEPT
        !.last_seen = Pop(@, tracked_name),
        !.low_alt_since = Pop(@, tracked_name),
        !.landed_block = @ \ {tracked_name},
        !.hex_to_name = IF cur # None THEN Pop(@, m.icao) ELSE @,
        !.name_to_hex = Pop(@, tracked_name),
        !.aircraft = Pop(@, tracked_name)]

\* lines 342-361: range clear
RangeClear(s, tracked_name, cur, m, ok) ==
  LET s1 == SendDelete(s, tracked_name, DelLat(s, tracked_name, m.lat), ok)
  IN [s1 EXCEPT
        !.last_seen = Pop(@, tracked_name),
        !.last_sent = Pop(@, tracked_name),
        !.low_alt_since = Pop(@, tracked_name),
        !.landed_block = @ \ {tracked_name},
        !.hex_to_name = IF cur # None THEN Pop(@, m.icao) ELSE @,
        !.name_to_hex = Pop(@, tracked_name),
        !.aircraft = Pop(@, tracked_name)]

\* lines 370-373: landed suppression re-enable
LandedReenable(s, tracked_name, alt) ==
  IF tracked_name \in s.landed_block /\ (alt = None \/ Val(alt) > LAND_CLEAR_ALT)
  THEN [s EXCEPT !.landed_block = @ \ {tracked_name},
                 !.low_alt_since = Pop(@, tracked_name)]
  ELSE s

\* line 375: the record of a suppressed name is dropped
LandedDrop(s, tracked_name, alt) ==
  tracked_name \in s.landed_block /\ alt # None /\ Val(alt) <= LANDED_ALT_FT

\* lines 380-381: start the low-altitude timer
LowAltStart(s, tracked_name, now) ==
  IF Has(s.low_alt_since, tracked_name) THEN s
  ELSE [s EXCEPT !.low_alt_since = Put(@, tracked_name, now)]

\* lines 383-400: landed-dwell delete
DwellDelete(s, tracked_name, cur, m, ok) ==
  LET s1 == SendDelete(s, tracked_name, DelLat(s, tracked_name, m.lat), ok)
  IN [s1 EXCEPT
        !.last_seen = Pop(@, tracked_name),
        !.last_sent = Pop(@, tracked_name),
        !.landed_block = @ \cup {tracked_name},
        !.hex_to_name = IF cur # None THEN Pop(@, m.icao) ELSE @,
        !.name_to_hex = Pop(@, tracked_name),
        !.aircraft = Pop(@, tracked_name)]

\* a throttle that enters the new second without emptying the bucket
Throttle_carries(s, now) ==
  IF now # s.last_sec THEN [s EXCEPT !.last_sec = now] ELSE s

\* lines 405-407: the bucket refills in a new second
Throttle(s, now) ==
  IF now # s.last_sec THEN [s EXCEPT !.last_sec = now, !.sent_this_sec = 0] ELSE s

\* lines 412-430: rename, the old name is deleted and its record migrated
Rename(s, cur, desired_name, m, ok) ==
  LET s1 == SendDelete(s, cur, DelLat(s, cur, m.lat), ok)
      sent1 == Pop(s.last_sent, cur)
  IN [s1 EXCEPT
        !.last_seen = Pop(@, cur),
        !.last_sent = IF Has(s.last_sent, cur)
                      THEN Put(sent1, desired_name, s.last_sent[cur])
                      ELSE sent1,
        !.name_to_hex = Put(Pop(@, cur), desired_name, m.icao),
        !.hex_to_name = Put(@, m.icao, desired_name)]

\* lines 432-434
RegisterHex(s, tracked_name, icao_hex) ==
  IF icao_hex # <<>> /\ ~Has(s.hex_to_name, icao_hex)
  THEN [s EXCEPT !.hex_to_name = Put(@, icao_hex, tracked_name),
                 !.name_to_hex = Put(@, tracked_name, icao_hex)]
  ELSE s

\* the fields of msg that state_changed reads (last_sent[...]["state"] = msg;
\* its callsign and icao, and last_sent[...]["icao"], are never read)
StateOf(m) == [lat |-> m.lat, lon |-> m.lon, alt |-> m.alt, trk |-> m.trk, gs |-> m.gs]

\* int() of a track: tracks are floats, held in tenths of a degree, and int()
\* truncates toward zero (line 457)
int(trk) == IF trk >= 0 THEN trk \div 10 ELSE -((-trk) \div 10)

\* lines 448-463 for prev not None (need_send covers prev_state is None)
state_changed(prev, cur) ==
  \/ Abs(cur.lat - prev.lat) >= EPS_LATLON_E5
  \/ Abs(cur.lon - prev.lon) >= EPS_LATLON_E5
  \/ (cur.alt = None) # (prev.alt = None)
  \/ (cur.alt # None /\ prev.alt # None /\ Abs(Val(cur.alt) - Val(prev.alt)) >= EPS_ALT_FT)
  \/ (cur.trk = None) # (prev.trk = None)
  \/ (cur.trk # None /\ prev.trk # None /\
      LET a == int(Val(cur.trk)) % 360
          b == int(Val(prev.trk)) % 360
          d == Abs(a - b)
      IN (IF d < 360 - d THEN d ELSE 360 - d) >= EPS_TRK_DEG)
  \/ (cur.gs = None) # (prev.gs = None)
  \/ (cur.gs # None /\ prev.gs # None /\ Abs(Val(cur.gs) - Val(prev.gs)) >= EPS_GS_KT)

\* lines 438-471
need_send(s, tracked_name, m, now) ==
  IF ~Has(s.last_sent, tracked_name) THEN TRUE
  ELSE LET prev_info == s.last_sent[tracked_name]
       IN \/ haversine_miles(prev_info.lat, prev_info.lon, m.lat, m.lon)
                 >= MIN_MOVE_MI_X100 * (MILE \div 100)
          \/ (state_changed(prev_info.state, m) /\
              now - prev_info.time >= MIN_UPDATE_SEC)

\* lines 484-525: the update line; a failed write reconnects and records nothing
SendUpdate(s, tracked_name, m, now, ok) ==
  IF ok
  THEN [Attempt(s) EXCEPT
          !.out = Append(@, UpdLine(tracked_name, m)),
          !.last_sent = Put(@, tracked_name,
                            [time |-> now, state |-> StateOf(m),
                             lat |-> m.lat, lon |-> m.lon]),
          !.aircraft = Put(@, tracked_name,
                           [icao |-> m.icao, lat |-> m.lat]),
          !.sent_this_sec = @ + 1]
  ELSE [Attempt(s) EXCEPT !.reconnect = TRUE, !.failed = FALSE]

\* lines 329-525 for one parsed record msg; now is int(time.time()) of line 367
ProcessRecord(s, m, now, ok) ==
  LET icao_hex == m.icao
      callsign == m.callsign
      desired_name == name_from_callsign_or_hex(callsign, icao_hex)
      dist_kbuf == haversine_miles(KBUF_LAT_E5, KBUF_LON_E5, m.lat, m.lon)
      cur == Get(s.hex_to_name, icao_hex)
      tracked_name == IF cur # None THEN cur ELSE desired_name
  IN
  IF Has(s.last_seen, tracked_name) /\ dist_kbuf > CLEAR_DISTANCE_MI * MILE
  THEN RangeClear(s, tracked_name, cur, m, ok)
  ELSE IF ~Has(s.last_seen, tracked_name) /\ dist_kbuf > ADD_DISTANCE_MI * MILE
  THEN s
  ELSE
  LET s1 == LandedReenable(s, tracked_name, m.alt) IN
  IF LandedDrop(s1, tracked_name, m.alt) THEN s1
  ELSE
  LET low == m.alt # None /\ Val(m.alt) <= LANDED_ALT_FT
      s2 == IF low THEN LowAltStart(s1, tracked_name, now)
            ELSE [s1 EXCEPT !.low_alt_since = Pop(@, tracked_name)]
  IN
  IF low /\ now - s2.low_alt_since[tracked_name] >= LANDED_WAIT_SEC
  THEN DwellDelete(s2, tracked_name, cur, m, ok)
  ELSE
  LET s3 == Throttle(s2, now) IN
  IF s3.sent_this_sec >= MAX_PKTS_PER_SEC THEN s3
  ELSE
  LET renamed == cur # None /\ desired_name # cur
      s4 == IF renamed THEN Rename(s3, cur, desired_name, m, ok) ELSE s3
      name == IF renamed THEN desired_name ELSE tracked_name
      s5 == RegisterHex(s4, name, icao_hex)
      s6 == [s5 EXCEPT !.last_seen = Put(@, name, now)]
  IN
  IF ~need_send(s6, name, m, now) THEN s6
  ELSE SendUpdate(s6, name, m, now, ok)

\* lines 531-552 for one expired name n
SweepOne(s, n, ok) ==
  LET lat == IF Has(s.last_sent, n) THEN s.last_sent[n].lat ELSE 0
      hx == Get(s.name_to_hex, n)
      s1 == [s EXCEPT
               !.last_seen = Pop(@, n),
               !.last_sent = Pop(@, n),
               !.low_alt_since = Pop(@, n),
               !.landed_block = @ \ {n},
               !.name_to_hex = Pop(@, n),
               !.hex_to_name = IF hx # None THEN Pop(@, hx) ELSE @]
      s2 == SendDelete(s1, n, lat, ok)
  IN [s2 EXCEPT !.aircraft = Pop(@, n)]

\* line 529
to_delete(s, now) ==
  {n \in DOMAIN s.last_seen : now - s.last_seen[n] >= OBJECT_TTL_SEC}

\* the for loop of line 531 over the names in order
RECURSIVE SweepAll(_, _, _)
SweepAll(s, order, ok) ==
  IF order = <<>> THEN s
  ELSE SweepAll(SweepOne(s, Head(order), ok), Tail(order), ok)

Orders(S) == {q \in [1..Cardinality(S) -> S] : \A n \in S : \E i \in DOMAIN q : q[i] = n}

Min(a, b) == IF a < b THEN a ELSE b

Commit(s) ==
  /\ last_seen' = s.last_seen
  /\ last_sent' = s.last_sent
  /\ low_alt_since' = s.low_alt_since
  /\ landed_block' = s.landed_block
  /\ hex_to_name' = s.hex_to_name
  /\ name_to_hex' = s.name_to_hex
  /\ aircraft' = s.aircraft
  /\ last_sec' = s.last_sec
  /\ sent_this_sec' = s.sent_this_sec
  /\ out' = s.out
  /\ sec_lines' = IF run.count THEN Min(sec_lines + Len(s.out), LineCap) ELSE 0
  /\ aprs_up' = (aprs_up \/ s.reconnect)
  /\ aprs_failed' = s.failed

\* History of the input: the start of the aircraft's current unbroken run of
\* low-altitude records, kept while the aircraft is tracked.
LowRun(m, h2n) ==
  IF Has(h2n, m.icao) /\ m.alt # None /\ Val(m.alt) <= LANDED_ALT_FT
  THEN (IF Has(low_run, m.icao) THEN low_run ELSE Put(low_run, m.icao, clock))
  ELSE Pop(low_run, m.icao)

\* History of the output: the tracked names for whose track an update line
\* has been written since the track was admitted.  A track keeps its history
\* when the name of its ICAO changes from old to new.
FirstSent(old, new, seen, lines) ==
  LET carried == IF old # None /\ new # None /\ old # new /\ old \in first_sent
                 THEN (first_sent \ {old}) \cup {new}
                 ELSE first_sent
  IN (carried \cap DOMAIN seen)
       \cup {lines[i].name : i \in {j \in DOMAIN lines : ~lines[j].del}}

(***************************************************************************)
(* adsb_worker: actions                                                    *)
(***************************************************************************)
AdsbInit ==
  /\ run \in Runs
  /\ aprs_up = TRUE
  /\ clock = T0
  /\ pc = "recv"
  /\ last_seen = EmptyDict
  /\ last_sent = EmptyDict
  /\ low_alt_since = EmptyDict
  /\ landed_block = {}
  /\ hex_to_name = EmptyDict
  /\ name_to_hex = EmptyDict
  /\ aircraft = EmptyDict
  /\ last_sec = 0
  /\ sent_this_sec = 0
  /\ out = <<>>
  /\ sec_lines = 0
  /\ first_sent = {}
  /\ low_run = EmptyDict
  /\ aprs_failed = FALSE
  /\ meta_cache = EmptyDict
  /\ last_json_poll = 0
  /\ sbs_redial = FALSE

\* time passes; the worker may be anywhere, also blocked in sbs.recv (line 313)
Tick ==
  /\ \E t \in run.instants : t > clock /\ clock' = t
  /\ sec_lines' = 0
  /\ out' = <<>>
  /\ UNCHANGED <<run, aprs_up, pc, last_seen, last_sent, low_alt_since,
                 landed_block, hex_to_name, name_to_hex, aircraft, last_sec,
                 sent_this_sec, first_sent, low_run, aprs_failed>>
  /\ UNCHANGED jsonVars
  /\ UNCHANGED aisVars
  /\ UNCHANGED connVars
  /\ UNCHANGED guiVars

\* the APRS-IS socket breaks (writes raise) or a transient fault clears
AprsFault ==
  /\ aprs_up' = ~aprs_up
  /\ UNCHANGED <<run, clock, pc, last_seen, last_sent, low_alt_since,
                 landed_block, hex_to_name, name_to_hex, aircraft, last_sec,
                 sent_this_sec, out, sec_lines, first_sent,
                 low_run, aprs_failed>>
  /\ UNCHANGED jsonVars
  /\ UNCHANGED aisVars
  /\ UNCHANGED connVars
  /\ UNCHANGED guiVars

\* str.upper() of a JSON field
upper_str(str) == [i \in DOMAIN str |-> upper(str[i])]

\* lines 258-269 from item i on: the cache as the loop leaves it, and whether
\* a.get raised (the item is not an object).  Of an entry only the flight is
\* kept; category and type select the symbol, which the lines here omit.
RECURSIVE fold_items(_, _, _)
fold_items(cache, items, i) ==
  IF i > Len(items) THEN [cache |-> cache, raised |-> FALSE]
  ELSE LET a == items[i] IN
       IF ~a.obj THEN [cache |-> cache, raised |-> TRUE]
       ELSE LET icao == upper_str(a.hex) IN
            IF icao = <<>> THEN fold_items(cache, items, i + 1)
            ELSE LET old == Get(cache, icao)
                     flt == IF a.flight # <<>>
                            THEN strip(a.flight) ELSE old
                 IN fold_items(Put(cache, icao, flt), items, i + 1)

\* lines 248-280
refresh_meta_cache(cache, body) ==
  IF body.kind = "list" THEN fold_items(cache, body.items, 1)
  ELSE [cache |-> cache, raised |-> FALSE]

\* line 309
PollDue == clock - last_json_poll >= JSON_REFRESH_SEC

\* the head of the loop (lines 308-311) when the poll is due and the endpoint
\* answers with body; an exception ends the iteration in the handler of lines
\* 554-559 (sleep, close the SBS socket, connect_sbs)
PollWith(body) ==
  LET r == refresh_meta_cache(meta_cache, body) IN
  /\ meta_cache' = r.cache
  /\ last_json_poll' = IF r.raised THEN last_json_poll ELSE clock
  /\ sbs_redial' = r.raised

JsonPoll ==
  /\ pc = "recv"
  /\ PollDue
  /\ \E body \in run.json : PollWith(body)
  /\ out' = <<>>
  /\ UNCHANGED <<run, aprs_up, clock, pc, last_seen, last_sent, low_alt_since,
                 landed_block, hex_to_name, name_to_hex, aircraft, last_sec,
                 sent_this_sec, sec_lines, first_sent, low_run, aprs_failed>>
  /\ UNCHANGED aisVars
  /\ UNCHANGED connVars
  /\ UNCHANGED guiVars

\* sbs.recv returns data (lines 313-321)
SbsData ==
  /\ pc = "recv"
  /\ run.json = {} \/ ~PollDue
  /\ pc' = "lines"
  /\ out' = <<>>
  /\ sbs_redial' = FALSE
  /\ UNCHANGED <<run, aprs_up, clock, last_seen, last_sent, low_alt_since,
                 landed_block, hex_to_name, name_to_hex, aircraft, last_sec,
                 sent_this_sec, sec_lines, first_sent, low_run, aprs_failed,
                 meta_cache, last_json_poll>>
  /\ UNCHANGED aisVars
  /\ UNCHANGED connVars
  /\ UNCHANGED guiVars

\* lines 330-332: callsign = msg["callsign"] or json_callsign
Effective(m) ==
  [m EXCEPT !.callsign = IF @ # <<>> THEN @ ELSE Get(meta_cache, m.icao)]

\* one pass of the while loop of line 322 for a record parse_sbs accepts
Record ==
  /\ pc = "lines"
  /\ \E msg \in run.feed :
       LET m == Effective(msg) IN
       /\ Commit(ProcessRecord(Tables, m, clock, aprs_up))
       /\ low_run' = LowRun(m, hex_to_name')
       /\ first_sent' = FirstSent(Get(hex_to_name, m.icao),
                                  Get(hex_to_name', m.icao), last_seen', out')
  /\ UNCHANGED <<run, clock, pc>>
  /\ UNCHANGED jsonVars
  /\ UNCHANGED aisVars
  /\ UNCHANGED connVars
  /\ UNCHANGED guiVars

\* the buffer holds no further line: cleanup phase (lines 527-552), then the
\* loop goes back to sbs.recv
Sweep ==
  /\ pc = "lines"
  /\ pc' = "recv"
  /\ LET del == to_delete(Tables, clock)
     IN \E order \in Orders(del) : Commit(SweepAll(Tables, order, aprs_up))
  /\ low_run' = [h \in DOMAIN low_run \cap DOMAIN hex_to_name' |-> low_run[h]]
  /\ first_sent' = FirstSent(None, None, last_seen', out')
  /\ UNCHANGED <<run, clock>>
  /\ UNCHANGED jsonVars
  /\ UNCHANGED aisVars
  /\ UNCHANGED connVars
  /\ UNCHANGED guiVars

(***************************************************************************)
(* connect_aprs (lines 78-90) and the workers' use of the socket it        *)
(* returns: each worker writes object lines on it and, when a write raises *)
(* (lines 521-525, 924-932) or another exception reaches ais_worker's      *)
(* handler (lines 955-962), closes it and calls connect_aprs again.        *)
(***************************************************************************)
Tags == {"ADSB2APRS", "AIS2APRS"}
LoginLine(tag) == [kind |-> "login", tag |-> tag]
ObjectLine(tag) == [kind |-> "object", tag |-> tag]
\* time.sleep(3) of line 90, time.sleep(2) of lines 926 and 957
RETRY_SEC == 3
AIS_PAUSE_SEC == 2
\* how many lines are followed on one socket
MaxWire == 3

ConnInit ==
  /\ accepts = TRUE
  /\ conn_pc = [p \in Tags |-> "socket"]
  /\ nap = [p \in Tags |-> 0]
  /\ wire = [p \in Tags |-> <<>>]

\* the server becomes unreachable, or reachable again
ServerFlip ==
  /\ accepts' = ~accepts
  /\ UNCHANGED <<conn_pc, nap, wire>>
  /\ UNCHANGED <<adsbVars, aisVars, guiVars>>

\* lines 82-83: a new socket, and connect; an exception leads to line 89
Dial(p) ==
  /\ conn_pc[p] = "socket"
  /\ wire' = [wire EXCEPT ![p] = <<>>]
  /\ IF accepts
     THEN /\ conn_pc' = [conn_pc EXCEPT ![p] = "login"]
          /\ UNCHANGED nap
     ELSE /\ conn_pc' = [conn_pc EXCEPT ![p] = "sleep"]
          /\ nap' = [nap EXCEPT ![p] = RETRY_SEC]
  /\ UNCHANGED accepts
  /\ UNCHANGED <<adsbVars, aisVars, guiVars>>

\* the login write that returns the socket without having written the line
Login_silent(p) ==
  /\ conn_pc[p] = "login"
  /\ conn_pc' = [conn_pc EXCEPT ![p] = "ready"]
  /\ UNCHANGED <<accepts, nap, wire>>
  /\ UNCHANGED <<adsbVars, aisVars, guiVars>>

\* lines 84-87: the login line is written and the socket returned; an
\* exception of the write leads to line 89
Login(p) ==
  /\ conn_pc[p] = "login"
  /\ IF accepts
     THEN /\ wire' = [wire EXCEPT ![p] = Append(@, LoginLine(p))]
          /\ conn_pc' = [conn_pc EXCEPT ![p] = "ready"]
          /\ UNCHANGED nap
     ELSE /\ conn_pc' = [conn_pc EXCEPT ![p] = "sleep"]
          /\ nap' = [nap EXCEPT ![p] = RETRY_SEC]
          /\ UNCHANGED wire
  /\ UNCHANGED accepts
  /\ UNCHANGED <<adsbVars, aisVars, guiVars>>

\* a second of a sleep passes
Nap(p) ==
  /\ conn_pc[p] = "sleep" /\ nap[p] > 0
  /\ nap' = [nap EXCEPT ![p] = @ - 1]
  /\ UNCHANGED <<accepts, conn_pc, wire>>
  /\ UNCHANGED <<adsbVars, aisVars, guiVars>>

\* the sleep returns: the loop of connect_aprs goes round (line 90), or the
\* worker's handler closes the socket and calls connect_aprs
Wake(p) ==
  /\ conn_pc[p] = "sleep" /\ nap[p] = 0
  /\ conn_pc' = [conn_pc EXCEPT ![p] = "socket"]
  /\ UNCHANGED <<accepts, nap, wire>>
  /\ UNCHANGED <<adsbVars, aisVars, guiVars>>

\* the worker writes an object line (lines 485, 546, 924); a write that raises
\* sends it to its handler: ais_worker sleeps, both close and reconnect
SendLine(p) ==
  /\ conn_pc[p] = "ready"
  /\ Len(wire[p]) < MaxWire
  /\ IF accepts
     THEN /\ wire' = [wire EXCEPT ![p] = Append(@, ObjectLine(p))]
          /\ UNCHANGED <<conn_pc, nap>>
     ELSE /\ conn_pc' = [conn_pc EXCEPT ![p] = "sleep"]
          /\ nap' = [nap EXCEPT ![p] = IF p = "AIS2APRS" THEN AIS_PAUSE_SEC
                                       ELSE 0]
          /\ UNCHANGED wire
  /\ UNCHANGED accepts
  /\ UNCHANGED <<adsbVars, aisVars, guiVars>>

\* lines 955-962: another exception in ais_worker's loop
AisError ==
  /\ conn_pc["AIS2APRS"] = "ready"
  /\ conn_pc' = [conn_pc EXCEPT !["AIS2APRS"] = "sleep"]
  /\ nap' = [nap EXCEPT !["AIS2APRS"] = AIS_PAUSE_SEC]
  /\ UNCHANGED <<accepts, wire>>
  /\ UNCHANGED <<adsbVars, aisVars, guiVars>>

Dials == \E p \in Tags : Dial(p)
Logins == \E p \in Tags : Login(p)
Naps == \E p \in Tags : Nap(p)
Wakes == \E p \in Tags : Wake(p)
SendLines == \E p \in Tags : SendLine(p)
ConnNext ==
  ServerFlip \/ AisError \/ Dials \/ Logins \/ Naps \/ Wakes \/ SendLines

(***************************************************************************)
(* AIS sentences: six-bit armoring and the decoders (lines 581-708)        *)
(* A payload is the sequence of the character codes of its characters; a   *)
(* bit string is a sequence of 0s and 1s (Python index i is index i + 1).  *)
(***************************************************************************)
RECURSIVE Pow2(_)
Pow2(n) == IF n = 0 THEN 1 ELSE 2 * Pow2(n - 1)

\* f"{v:06b}" and its like: v in n binary digits, most significant first
to_bits(v, n) == [i \in 1..n |-> (v \div Pow2(n - i)) % 2]

\* int(b, 2) for a non-empty b
RECURSIVE int2(_)
int2(b) ==
  IF Len(b) = 1 THEN b[1]
  ELSE 2 * int2(SubSeq(b, 1, Len(b) - 1)) + b[Len(b)]

\* bits[start:start+length]
slice(bits, start, length) ==
  SubSeq(bits, start + 1,
         IF start + length < Len(bits) THEN start + length ELSE Len(bits))

\* _ASCII2SIX.get(ch, 0) for the character of code ch (line 581)
ascii2six(ch) ==
  IF ch >= 48 /\ ch < 120 THEN (IF ch < 88 THEN ch - 48 ELSE ch - 56) ELSE 0

RECURSIVE sixbit_unpack(_)
sixbit_unpack(payload) ==
  IF payload = <<>> THEN <<>>
  ELSE to_bits(ascii2six(Head(payload)), 6) \o sixbit_unpack(Tail(payload))

\* _u raises ValueError on an empty slice: int("", 2)
u_raises(bits, start, length) == slice(bits, start, length) = <<>>
_u(bits, start, length) == int2(slice(bits, start, length))

\* _s: two's complement, 0 for an empty slice
_s(bits, start, length) ==
  LET b == slice(bits, start, length)
  IN IF b = <<>> THEN 0
     ELSE IF b[1] = 1 THEN int2(b) - Pow2(length) ELSE int2(b)

\* chr(32) .. chr(95)
Chars6 ==
  <<" ", "!", "\"", "#", "$", "%", "&", "'", "(", ")", "*", "+", ",", "-", ".", "/",
    "0", "1", "2", "3", "4", "5", "6", "7", "8", "9", ":", ";", "<", "=", ">", "?",
    "@", "A", "B", "C", "D", "E", "F", "G", "H", "I", "J", "K", "L", "M", "N", "O",
    "P", "Q", "R", "S", "T", "U", "V", "W", "X", "Y", "Z", "[", "\\", "]", "^", "_">>

\* lines 598-606: chr(val + 0x20), "@" replaced by " ", for the 6-bit groups
\* at start, start + 6, ... below start + length; then strip()
sixbit_to_ascii(bits, start, length) ==
  strip([k \in 1..(length \div 6) |->
           LET ch == Chars6[_u(bits, start + 6 * (k - 1), 6) + 1]
           IN IF ch = "@" THEN " " ELSE ch])

\* raw / 600000.0 and raw / 600.0 degrees, in units of 1e-4 degree (toward 0)
deg_e4(raw, per_deg) ==
  LET a == IF per_deg = 600000 THEN Abs(raw) \div 60 ELSE (Abs(raw) * 50) \div 3
  IN IF raw < 0 THEN -a ELSE a

\* a decoder's result: (info, None) or (None, why)
Info(type, mmsi, lat, lon) ==
  [ok |-> TRUE, type |-> type, mmsi |-> mmsi, lat |-> lat, lon |-> lon]
NoInfo(why) == [ok |-> FALSE, why |-> why]

\* lines 608-640
decode_position(bits) ==
  IF Len(bits) < 168 THEN NoInfo("short")
  ELSE
  LET msgtype == _u(bits, 0, 6) IN
  IF msgtype \notin {1, 2, 3, 18, 19} THEN NoInfo("type")
  ELSE
  LET lon == IF msgtype \in {1, 2, 3} THEN _s(bits, 61, 28) ELSE _s(bits, 57, 28)
      lat == IF msgtype \in {1, 2, 3} THEN _s(bits, 89, 27) ELSE _s(bits, 85, 27)
  IN IF Abs(lon) >= 108600000 \/ Abs(lat) >= 54600000
     THEN NoInfo("invalid_latlon")
     ELSE Info(msgtype, _u(bits, 8, 30), deg_e4(lat, 600000), deg_e4(lon, 600000))

\* lines 642-663
decode_basestation(bits) ==
  IF Len(bits) < 168 THEN NoInfo("short")
  ELSE IF _u(bits, 0, 6) # 4 THEN NoInfo("not_type4")
  ELSE
  LET lon == _s(bits, 79, 28)
      lat == _s(bits, 107, 27)
  IN IF Abs(lon) >= 108600000 \/ Abs(lat) >= 54600000
     THEN NoInfo("invalid_latlon")
     ELSE Info(4, _u(bits, 8, 30), deg_e4(lat, 600000), deg_e4(lon, 600000))

\* lines 665-687; 0x1FFFF = 131071
decode_longrange(bits) ==
  IF Len(bits) < 96 THEN NoInfo("short")
  ELSE IF _u(bits, 0, 6) # 27 THEN NoInfo("not_type27")
  ELSE
  LET lon == _s(bits, 44, 18)
      lat == _s(bits, 62, 17)
  IN IF lon = 131071 \/ lat = 131071
     THEN NoInfo("invalid_latlon")
     ELSE Info(27, _u(bits, 8, 30), deg_e4(lat, 600), deg_e4(lon, 600))

\* lines 689-708, for non-empty bits (on empty bits line 690 raises)
Static(type, mmsi, name) ==
  [ok |-> TRUE, type |-> type, mmsi |-> mmsi, name |-> name]

decode_static(bits) ==
  LET msgtype == _u(bits, 0, 6) IN
  IF msgtype = 5
  THEN (IF Len(bits) < 424 THEN NoInfo("short5")
        ELSE Static(5, _u(bits, 8, 30), sixbit_to_ascii(bits, 112, 120)))
  ELSE IF msgtype = 24
  THEN (IF Len(bits) < 160 THEN NoInfo("short24")
        ELSE IF _u(bits, 38, 2) \in {0, 1}
        THEN Static(24, _u(bits, 8, 30), sixbit_to_ascii(bits, 40, 120))
        ELSE NoInfo("partB"))
  ELSE NoInfo("not_static")

(***************************************************************************)
(* parse_nmea (lines 765-810).  A sentence is the record of its comma      *)
(* separated parts: head is parts[0], nparts is len(parts); a numeric part *)
(* is empty, an integer literal (int) or anything else (bad).              *)
(***************************************************************************)
Empty == [kind |-> "empty", v |-> 0]
Lit(n) == [kind |-> "int", v |-> n]
Bad == [kind |-> "bad", v |-> 0]

\* int(part or default)
int_or(part, default) == IF part.kind = "empty" THEN default ELSE part.v

Parsed(payload, fill, store) ==
  [perr |-> "", payload |-> payload, fill |-> fill, store |-> store]
Perr(why, store) ==
  [perr |-> why, payload |-> <<>>, fill |-> 0, store |-> store]

\* "".join(entry["payloads"].get(i, "") for i in range(1, total + 1))
RECURSIVE join_payloads(_, _, _)
join_payloads(payloads, i, total) ==
  IF i > total THEN <<>>
  ELSE (IF i \in DOMAIN payloads THEN payloads[i] ELSE <<>>)
         \o join_payloads(payloads, i + 1, total)

\* the result of parse_nmea(line) and frag_store as the call leaves it
parse_nmea(line, store) ==
  IF line.head \notin {"!AIVDM", "!AIVDO"} THEN Perr("not_AIVDM", store)
  ELSE IF line.nparts < 7 THEN Perr("short_line", store)
  ELSE IF line.fragcount.kind = "bad" \/ line.fragnum.kind = "bad"
  THEN Perr("bad_frag_fields", store)
  ELSE
  LET fragcount == int_or(line.fragcount, 1)
      fragnum == int_or(line.fragnum, 1)
      fillbits == IF line.fill.kind = "bad" THEN 0 ELSE int_or(line.fill, 0)
      key == <<line.seq, line.chan>>
  IN
  IF fragcount = 1 /\ fragnum = 1 THEN Parsed(line.payload, fillbits, store)
  ELSE
  LET entry0 == IF Has(store, key) THEN store[key]
                ELSE [total |-> fragcount, payloads |-> EmptyDict,
                      fill |-> fillbits]
      entry == [entry0 EXCEPT !.payloads = Put(@, fragnum, line.payload),
                              !.fill = fillbits]
  IN IF Cardinality(DOMAIN entry.payloads) = entry.total
     THEN Parsed(join_payloads(entry.payloads, 1, entry.total), entry.fill,
                 Pop(store, key))
     ELSE Perr("waiting_frag", Put(store, key, entry))

(***************************************************************************)
(* Inputs of the AIS pipeline                                              *)
(***************************************************************************)
\* a vessel under way, and one whose receiver only reports the fix (0, 0)
Moving == {366000001}
Moored == {3669702}
Mmsis == Moving \cup Moored
\* the reference point, and 100.0, 200.0 and 260.0 nm north of it
AisLats ==
  {CENTER_LAT_E4, CENTER_LAT_E4 + 16656, CENTER_LAT_E4 + 33311,
   CENTER_LAT_E4 + 43305}
\* what decode_position / decode_basestation / decode_longrange return: fixes
\* on the meridian of the reference point, and the fix (0, 0)
AisInfos ==
  [mmsi : Moving, lat : AisLats, lon : {CENTER_LON_E4}]
    \cup [mmsi : Mmsis, lat : {0}, lon : {0}]
\* static_info["name"].strip() of decode_static
AisNames == {<<>>, <<"E","V","E","R">>}
AisInstants == At({0, 1, TELEPORT_TIME_SEC})
\* how many accepted fixes per MMSI the history keeps
MaxFixes == 3

(* the sentences of the feed, built by armoring the fields of a message *)
Zeros(n) == [i \in 1..n |-> 0]
Field(v, n) == to_bits(v % Pow2(n), n)
six2ascii(v) == IF v < 40 THEN v + 48 ELSE v + 56
\* the payload characters of a bit string, zero-padded to whole characters
armor(bits) ==
  LET n == (Len(bits) + 5) \div 6
      b == bits \o Zeros(6 * n - Len(bits))
  IN [k \in 1..n |-> six2ascii(int2(SubSeq(b, 6 * k - 5, 6 * k)))]
\* the 120-bit name field that sixbit_to_ascii reads back as str
NameField(str) ==
  LET code(c) == (CHOOSE i \in 1..64 : Chars6[i] = c) - 1
      RECURSIVE enc(_)
      enc(x) == IF x = <<>> THEN <<>> ELSE to_bits(code(Head(x)), 6) \o enc(Tail(x))
  IN enc(str) \o Zeros(120 - 6 * Len(str))

\* messages 1/2/3 and 18/19 (168 bits), 4 (168), 27 (96), 5 (424), 24 (160)
PosBits(type, mmsi, lon, lat) ==
  IF type \in {1, 2, 3}
  THEN Field(type, 6) \o Zeros(2) \o Field(mmsi, 30) \o Zeros(23)
         \o Field(lon, 28) \o Field(lat, 27) \o Zeros(52)
  ELSE Field(type, 6) \o Zeros(2) \o Field(mmsi, 30) \o Zeros(19)
         \o Field(lon, 28) \o Field(lat, 27) \o Zeros(56)
BaseBits(mmsi, lon, lat) ==
  Field(4, 6) \o Zeros(2) \o Field(mmsi, 30) \o Zeros(41)
    \o Field(lon, 28) \o Field(lat, 27) \o Zeros(34)
LongBits(mmsi, lon, lat) ==
  Field(27, 6) \o Zeros(2) \o Field(mmsi, 30) \o Zeros(6)
    \o Field(lon, 18) \o Field(lat, 17) \o Zeros(17)
Static5Bits(mmsi, name) ==
  Field(5, 6) \o Zeros(2) \o Field(mmsi, 30) \o Zeros(74)
    \o NameField(name) \o Zeros(192)
Static24Bits(mmsi, part_no, name) ==
  Field(24, 6) \o Zeros(2) \o Field(mmsi, 30) \o Field(part_no, 2)
    \o NameField(name)

\* a one-fragment !AIVDM sentence with this payload
Single(payload) ==
  [head |-> "!AIVDM", nparts |-> 7, fragcount |-> Lit(1), fragnum |-> Lit(1),
   seq |-> "", chan |-> "A", payload |-> payload, fill |-> Lit(0)]
\* fragment fragnum of fragcount, sequence id "1"
Fragment(fragcount, fragnum, payload) ==
  [Single(payload) EXCEPT !.fragcount = Lit(fragcount),
                          !.fragnum = Lit(fragnum), !.seq = "1"]

\* raw 1/10000 minute and 1/10 minute coordinates of 1e-4 degree values
Raw(e4) == e4 * 60
Raw27(e4) == (e4 * 3) \div 50
\* the greatest MMSI of the 30-bit field
MmsiTop == Pow2(30) - 1
\* 90.5 degrees north
LatPolar == 905000

\* the vessel of the feed
Ship == 366000002
Fix1 == armor(PosBits(1, Ship, Raw(CENTER_LON_E4), Raw(CENTER_LAT_E4)))

Sentences ==
  { Single(Fix1),
    Single(armor(PosBits(18, Ship, Raw(CENTER_LON_E4), Raw(CENTER_LAT_E4 + 16656)))),
    Single(armor(PosBits(1, MmsiTop, Raw(CENTER_LON_E4), Raw(CENTER_LAT_E4)))),
    Single(armor(PosBits(3, Ship, Raw(CENTER_LON_E4), Raw(LatPolar)))),
    Single(armor(BaseBits(Ship, Raw(CENTER_LON_E4), Raw(LatPolar)))),
    Single(armor(LongBits(Ship, Raw27(CENTER_LON_E4), Raw27(LatPolar)))),
    Single(armor(Static5Bits(Ship, <<"E","V","E","R">>))),
    Single(armor(Static24Bits(Ship, 0, <<"T","U","G">>))),
    Single(armor(Static24Bits(Ship, 1, <<"W","D","E","7">>))),
    Single(armor(Static5Bits(Ship, <<>>))),
    \* not decodable: no !AIVDM, too few parts, bad fragment fields, a message
    \* type without decoder, a truncated position report, no payload at all
    [Single(Fix1) EXCEPT !.head = "$GPGGA"],
    [Single(Fix1) EXCEPT !.nparts = 6],
    [Single(Fix1) EXCEPT !.fragcount = Bad],
    Single(armor(Field(9, 6) \o Zeros(162))),
    Single(SubSeq(Fix1, 1, 10)),
    Single(<<>>),
    \* a position report in two fragments
    Fragment(2, 1, SubSeq(Fix1, 1, 14)),
    Fragment(2, 2, SubSeq(Fix1, 15, 28)) }

(***************************************************************************)
(* ais_worker (lines 835-962)                                              *)
(***************************************************************************)
DigitChars == <<"0","1","2","3","4","5","6","7","8","9">>

RECURSIVE decimal(_)
decimal(n) ==
  IF n < 10 THEN <<DigitChars[n + 1]>>
  ELSE Append(decimal(n \div 10), DigitChars[(n % 10) + 1])

RECURSIVE rjust0(_, _)
rjust0(s, w) == IF Len(s) >= w THEN s ELSE rjust0(<<"0">> \o s, w)

\* f"{mmsi:09d}"
mmsi09(mmsi) == rjust0(decimal(mmsi), 9)

\* line 887: abs(lat) < 0.001 and abs(lon) < 0.001
near_zero(lat, lon) == Abs(lat) < 10 /\ Abs(lon) < 10

\* line 892-893
out_of_range(lat, lon) ==
  haversine_nm(CENTER_LAT_E4, CENTER_LON_E4, lat, lon) > MAX_RANGE_NM * NM

\* the time test of the teleport filter turned around
teleport_late(prev, lat, lon, now) ==
  LET d_move == haversine_nm(prev.lat, prev.lon, lat, lon)
      dt == now - prev.time
  IN dt > TELEPORT_TIME_SEC /\ d_move > TELEPORT_MOVE_NM * NM

\* lines 902-904 for prev = last_good[mmsi]
teleport(prev, lat, lon, now) ==
  LET d_move == haversine_nm(prev.lat, prev.lon, lat, lon)
      dt == now - prev.time
  IN dt < TELEPORT_TIME_SEC /\ d_move > TELEPORT_MOVE_NM * NM

\* the object line without the NAME part of the comment
AisLine_unnamed(info, vname) ==
  [name |-> mmsi09(info.mmsi), lat |-> info.lat, lon |-> info.lon,
   vessel |-> None, live |-> TRUE]

\* the object line of make_ais_aprs_object for info and the cached name;
\* live: the character after the name is "*" (line 753), the object is not
\* killed
AisLine(info, vname) ==
  [name |-> mmsi09(info.mmsi), lat |-> info.lat, lon |-> info.lon,
   vessel |-> vname, live |-> TRUE]

\* the history of accepted fixes gains one fix and keeps the last MaxFixes
Remember(h, fix) ==
  LET a == Append(h, fix)
  IN IF Len(a) > MaxFixes THEN Tail(a) ELSE a

AisInit ==
  /\ ais_up = TRUE
  /\ ais_last_sec = 0
  /\ ais_sent_this_sec = 0
  /\ last_good = EmptyDict
  /\ name_cache = EmptyDict
  /\ vessels = EmptyDict
  /\ ais_out = <<>>
  /\ ais_redial = FALSE
  /\ frag_store = EmptyDict
  /\ fixes = [m \in Mmsis |-> <<>>]

AisTick ==
  /\ \E t \in AisInstants : t > clock /\ clock' = t
  /\ ais_out' = <<>>
  /\ ais_redial' = FALSE
  /\ UNCHANGED <<ais_up, ais_last_sec, ais_sent_this_sec, last_good,
                 name_cache, vessels, frag_store, fixes>>
  /\ UNCHANGED <<run, aprs_up, pc, last_seen, last_sent, low_alt_since,
                 landed_block, hex_to_name, name_to_hex, aircraft, last_sec,
                 sent_this_sec, out, sec_lines, first_sent, low_run,
                 aprs_failed>>
  /\ UNCHANGED jsonVars
  /\ UNCHANGED connVars
  /\ UNCHANGED guiVars

\* the AIS worker's APRS-IS socket breaks or a transient fault clears
AisFault ==
  /\ ais_up' = ~ais_up
  /\ UNCHANGED <<ais_last_sec, ais_sent_this_sec, last_good, name_cache,
                 vessels, ais_out, ais_redial, frag_store, fixes>>
  /\ UNCHANGED adsbVars
  /\ UNCHANGED connVars
  /\ UNCHANGED guiVars

\* line 870, v["name"] = name, changes the row dict in place: refresh's list
\* holds the same dict until a position record stores a new one (line 938)
Renamed(d, mmsi, name) ==
  [k \in DOMAIN d |->
     IF k = mmsi /\ d[k].shared THEN [d[k] EXCEPT !.row.name = name] ELSE d[k]]
Replaced(d, mmsi) ==
  [k \in DOMAIN d |-> IF k = mmsi THEN [d[k] EXCEPT !.shared = FALSE] ELSE d[k]]

\* a static message that also forgets the vessel's last accepted fix
HandleStatic_forgets(mmsi, name) ==
  /\ IF name # <<>>
     THEN /\ name_cache' = Put(name_cache, mmsi, name)
          /\ vessels' = IF Has(vessels, mmsi)
                        THEN [vessels EXCEPT ![mmsi].name = name]
                        ELSE vessels
     ELSE UNCHANGED <<name_cache, vessels>>
  /\ ais_out' = <<>>
  /\ ais_redial' = FALSE
  /\ last_good' = Pop(last_good, mmsi)
  /\ data' = IF name # <<>> THEN Renamed(data, mmsi, name) ELSE data
  /\ UNCHANGED <<ais_up, ais_last_sec, ais_sent_this_sec, fixes>>

\* lines 862-873: a static message of mmsi with the stripped name
HandleStatic(mmsi, name) ==
  /\ IF name # <<>>
     THEN /\ name_cache' = Put(name_cache, mmsi, name)
          /\ vessels' = IF Has(vessels, mmsi)
                        THEN [vessels EXCEPT ![mmsi].name = name]
                        ELSE vessels
     ELSE UNCHANGED <<name_cache, vessels>>
  /\ ais_out' = <<>>
  /\ ais_redial' = FALSE
  /\ data' = IF name # <<>> THEN Renamed(data, mmsi, name) ELSE data
  /\ UNCHANGED <<ais_up, ais_last_sec, ais_sent_this_sec, last_good, fixes>>

\* a failed write that files the fix all the same
SendFailed_files(info) ==
  /\ ais_up' = TRUE
  /\ ais_out' = <<>>
  /\ ais_redial' = TRUE
  /\ last_good' = Put(last_good, info.mmsi,
                      [lat |-> info.lat, lon |-> info.lon, time |-> clock])
  /\ UNCHANGED <<vessels, fixes>>

\* lines 924-932: the write raises: reconnect, the record is dropped
SendFailed(info) ==
  /\ ais_up' = TRUE
  /\ ais_out' = <<>>
  /\ ais_redial' = TRUE
  /\ UNCHANGED <<last_good, vessels, fixes>>

\* lines 885-947: a position record info
HandlePosition(info) ==
  LET mmsi == info.mmsi
      lat == info.lat
      lon == info.lon
      now == clock
      sec == IF now # ais_last_sec THEN 0 ELSE ais_sent_this_sec
      vname == Get(name_cache, mmsi)
  IN
  /\ IF \/ near_zero(lat, lon)
        \/ out_of_range(lat, lon)
        \/ (Has(last_good, mmsi) /\ teleport(last_good[mmsi], lat, lon, now))
     THEN /\ ais_out' = <<>>
          /\ ais_redial' = FALSE
          /\ UNCHANGED <<ais_up, ais_last_sec, ais_sent_this_sec, last_good,
                         vessels, fixes>>
     ELSE
       /\ ais_last_sec' = now
       /\ IF sec >= MAX_PKTS_PER_SEC
          THEN /\ ais_sent_this_sec' = sec
               /\ ais_out' = <<>>
               /\ ais_redial' = FALSE
               /\ UNCHANGED <<ais_up, last_good, vessels, fixes>>
          ELSE
            /\ ais_sent_this_sec' = sec + 1
            /\ IF ais_up
               THEN /\ ais_out' = <<AisLine(info, vname)>>
                    /\ ais_redial' = FALSE
                    /\ last_good' = Put(last_good, mmsi,
                                        [lat |-> lat, lon |-> lon, time |-> now])
                    /\ vessels' = Put(vessels, mmsi,
                                      [name |-> IF vname # None THEN vname
                                                ELSE mmsi09(mmsi),
                                       lat |-> lat, lon |-> lon])
                    /\ fixes' = IF mmsi \in DOMAIN fixes
                                THEN [fixes EXCEPT ![mmsi] =
                                        Remember(@, [lat |-> lat, lon |-> lon,
                                                     time |-> now])]
                                ELSE fixes
                    /\ UNCHANGED ais_up
               ELSE SendFailed(info)
  /\ data' = IF ais_out' # <<>> THEN Replaced(data, mmsi) ELSE data
  /\ UNCHANGED name_cache

\* the line is skipped (continue): lines 850-854 and 879-883
AisSkip ==
  /\ ais_out' = <<>>
  /\ ais_redial' = FALSE
  /\ UNCHANGED <<ais_up, ais_last_sec, ais_sent_this_sec, last_good,
                 name_cache, vessels, fixes, data>>

\* an exception handler that also empties the view model
AisExcept_drops ==
  /\ ais_up' = TRUE
  /\ ais_redial' = TRUE
  /\ ais_out' = <<>>
  /\ vessels' = EmptyDict
  /\ UNCHANGED <<ais_last_sec, ais_sent_this_sec, last_good, name_cache,
                 fixes, data>>

\* lines 955-962: an exception in the handling of the line
AisExcept ==
  /\ ais_up' = TRUE
  /\ ais_redial' = TRUE
  /\ ais_out' = <<>>
  /\ UNCHANGED <<ais_last_sec, ais_sent_this_sec, last_good, name_cache,
                 vessels, fixes, data>>

\* bits[:-fill]
trim(bits, fill) ==
  IF fill > 0
  THEN SubSeq(bits, 1, IF Len(bits) > fill THEN Len(bits) - fill ELSE 0)
  ELSE SubSeq(bits, 1, IF -fill < Len(bits) THEN -fill ELSE Len(bits))

\* the bits the decoders are given (lines 856-859)
BitsOf(payload, fill) ==
  IF fill # 0 THEN trim(sixbit_unpack(payload), fill)
  ELSE sixbit_unpack(payload)

\* lines 875-879: the first of the three position decoders that accepts
decode_any(bits) ==
  LET p == decode_position(bits) IN
  IF p.ok THEN p
  ELSE LET b == decode_basestation(bits) IN
       IF b.ok THEN b ELSE decode_longrange(bits)

\* lines 856-883 for the bits of one message: the exception of _u on an
\* empty bit string, a static message, a position record, or nothing
Outcome(bits) ==
  IF u_raises(bits, 0, 6) THEN [kind |-> "raise"]
  ELSE LET static_info == decode_static(bits) IN
       IF static_info.ok THEN [kind |-> "static", static_info |-> static_info]
       ELSE LET info == decode_any(bits) IN
            IF info.ok THEN [kind |-> "position", info |-> info]
            ELSE [kind |-> "none"]

\* the values of frag_store and the (payload, fill) pairs parse_nmea can
\* return on the sentences of the feed
Stores ==
  LET one == {parse_nmea(l, EmptyDict).store : l \in Sentences}
  IN one \cup {parse_nmea(l, st).store : l \in Sentences, st \in one}
Payloads ==
  {<<r.payload, r.fill>> :
     r \in {q \in {parse_nmea(l, st) : l \in Sentences, st \in Stores} :
              q.perr = ""}}
\* the decoders are pure: their outcome on every such payload
Decoded == [p \in Payloads |-> Outcome(BitsOf(p[1], p[2]))]

\* lines 848-962: the body of the for loop for one input line
AisHandle(line) ==
  LET r == parse_nmea(line, frag_store) IN
  /\ frag_store' = r.store
  /\ IF r.perr # "" THEN AisSkip
     ELSE LET o == Decoded[<<r.payload, r.fill>>] IN
          CASE o.kind = "raise" -> AisExcept
            [] o.kind = "static" ->
                 HandleStatic(o.static_info.mmsi, o.static_info.name)
            [] o.kind = "position" -> HandlePosition(o.info)
            [] OTHER -> AisSkip
  /\ UNCHANGED adsbVars
  /\ UNCHANGED connVars
  /\ UNCHANGED <<gui_pc, snapshot, rows>>

\* a static message, decoded
AisStatic ==
  /\ \E mmsi \in Moving, name \in AisNames : HandleStatic(mmsi, name)
  /\ UNCHANGED frag_store
  /\ UNCHANGED adsbVars
  /\ UNCHANGED connVars
  /\ UNCHANGED <<gui_pc, snapshot, rows>>

\* a position record, decoded
AisPosition ==
  /\ \E info \in AisInfos : HandlePosition(info)
  /\ UNCHANGED frag_store
  /\ UNCHANGED adsbVars
  /\ UNCHANGED connVars
  /\ UNCHANGED <<gui_pc, snapshot, rows>>

\* a line of the AIS feed
AisSentence == \E line \in Sentences : AisHandle(line)

AisNext == AisTick \/ AisFault \/ AisStatic \/ AisPosition

(***************************************************************************)
(* Specifications                                                          *)
(***************************************************************************)
AdsbNext == Tick \/ AprsFault \/ JsonPoll \/ SbsData \/ Record \/ Sweep

\* both workers as constructed
\* refresh of setup_ais_gui, lines 993-1014
GuiInit ==
  /\ gui_pc = "timer"
  /\ data = EmptyDict
  /\ snapshot = EmptyDict
  /\ rows = EmptyDict

\* lines 994-995: data = list(vessels.values()) under vessels_lock; the list
\* holds the row dicts of vessels, not copies of them
Snapshot ==
  /\ gui_pc = "timer"
  /\ gui_pc' = "render"
  /\ data' = [k \in DOMAIN vessels |-> [row |-> vessels[k], shared |-> TRUE]]
  /\ snapshot' = vessels
  /\ UNCHANGED rows
  /\ UNCHANGED <<adsbVars, aisVars, connVars>>

\* lines 997-1014: the tree is emptied and gets one row per dict of data,
\* read without the lock
Render ==
  /\ gui_pc = "render"
  /\ gui_pc' = "timer"
  /\ rows' = [k \in DOMAIN data |-> data[k].row]
  /\ data' = EmptyDict
  /\ snapshot' = EmptyDict
  /\ UNCHANGED <<adsbVars, aisVars, connVars>>

Init == AdsbInit /\ AisInit /\ ConnInit /\ GuiInit

\* adsb_worker alone
SpecAdsb == Init /\ [][AdsbNext]_vars

\* adsb_worker in the burst run, dump1090's JSON endpoint silent
BurstNext == Tick \/ AprsFault \/ SbsData \/ Record \/ Sweep
InitBurst == Init /\ run = RunBurst
SpecBurst == InitBurst /\ [][BurstNext]_vars

\* ais_worker alone, the ADS-B worker idle with its tables as constructed
InitAis == Init /\ run = RunQuiet
SpecAis == InitAis /\ [][AisNext]_vars

\* ais_worker on decoded records with the AIS monitor window refreshing
GuiNext == AisStatic \/ AisPosition \/ Snapshot \/ Render
InitGui == Init /\ run = RunQuiet
SpecGui == InitGui /\ [][GuiNext]_vars

\* ais_worker fed with sentences
AisLinesNext == AisTick \/ AisFault \/ AisSentence
InitAisLines == Init /\ run = RunQuiet
SpecAisLines == InitAisLines /\ [][AisLinesNext]_vars

\* The APRS-IS connections of the two workers.  A thread that can take a
\* step of connect_aprs takes it (the interpreter schedules every thread and
\* a sleep returns); the server and the traffic are under no obligation.
InitConn == Init /\ run = RunQuiet
ConnFair ==
  \A p \in Tags :
    WF_vars(Dial(p)) /\ WF_vars(Login(p)) /\ WF_vars(Nap(p)) /\ WF_vars(Wake(p))
SpecConn == InitConn /\ [][ConnNext]_vars /\ ConnFair

\* parse_nmea alone, called on fragments in any order: fragment counts 0 and
\* 2, fragment numbers 1 to 3, two payloads, two fill-bit counts, two channels
FragLines ==
  {[Fragment(n, f, pl) EXCEPT !.chan = ch, !.fill = Lit(fb)] :
     n \in {0, 2}, f \in 1..3, pl \in {<<49>>, <<50>>}, ch \in {"A", "B"},
     fb \in {0, 2}}
    \cup {Single(<<49>>)}
NmeaCall ==
  /\ \E line \in FragLines : frag_store' = parse_nmea(line, frag_store).store
  /\ UNCHANGED <<ais_up, ais_last_sec, ais_sent_this_sec, last_good,
                 name_cache, vessels, ais_out, ais_redial, fixes>>
  /\ UNCHANGED adsbVars
  /\ UNCHANGED connVars
  /\ UNCHANGED guiVars
InitFrag == Init /\ run = RunQuiet
SpecFrag == InitFrag /\ [][NmeaCall]_vars

(***************************************************************************)
(* Claims about adsb_worker                                                *)
(***************************************************************************)
\* the step is the handling of record m
IsRecord(m) ==
  /\ pc = "lines" /\ pc' = "lines" /\ clock' = clock
  /\ m \in run.feed /\ Effective(m) = m
  /\ Commit(ProcessRecord(Tables, m, clock, aprs_up))

\* the name under which the handler files record m (lines 338-339)
TrackedName(m) ==
  IF Has(hex_to_name, m.icao) THEN hex_to_name[m.icao]
  ELSE name_from_callsign_or_hex(m.callsign, m.icao)

DistKbuf(m) == haversine_miles(KBUF_LAT_E5, KBUF_LON_E5, m.lat, m.lon)
IsLow(m) == m.alt # None /\ Val(m.alt) <= LANDED_ALT_FT
DeletesOf(lines, n) == {i \in DOMAIN lines : lines[i].del /\ lines[i].name = n}

\* C1: the ADS-B pipeline writes at most MAX_PKTS_PER_SEC lines, updates and
\* deletes alike, to APRS-IS within one second of the clock.
C1_RateCap == sec_lines <= MAX_PKTS_PER_SEC

\* C2: after every record and every sweep, each ICAO hex h of hex_to_name has
\* name_to_hex[hex_to_name[h]] = h.
C2_Bijection ==
  \A h \in DOMAIN hex_to_name :
    Has(name_to_hex, hex_to_name[h]) /\ name_to_hex[hex_to_name[h]] = h

\* C3: no name is still in last_seen more than OBJECT_TTL_SEC after its last
\* accepted record, whatever the feed does: whenever a name is overdue the
\* worker is on its way to the sweep, not blocked waiting for the feed.
C3_TtlBound ==
  \A n \in DOMAIN last_seen :
    clock - last_seen[n] > OBJECT_TTL_SEC => pc # "recv"

\* C4: whenever a step removes a name from last_seen, that step has written a
\* delete line for the name, at the position of the name's last-sent record.
C4_DeleteWritten ==
  [][\A n \in DOMAIN last_seen :
       n \notin DOMAIN last_seen' =>
         \E i \in DeletesOf(out', n) :
           Has(last_sent, n) => out'[i].lat = last_sent[n].lat]_vars

\* C5: every name with a last_sent entry has a last_seen entry, and the names
\* of last_seen without a last_sent entry are exactly the tracks for which no
\* update line has been written yet.
C5_SentSeen ==
  /\ DOMAIN last_sent \subseteq DOMAIN last_seen
  /\ \A n \in DOMAIN last_seen : n \notin DOMAIN last_sent <=> n \notin first_sent

\* a record has just put a name into last_seen whose first update could not
\* be written, beside a name whose update has been written
C5_Witness ==
  /\ pc = "lines" /\ out = <<>>
  /\ \E n \in DOMAIN last_seen : n \notin DOMAIN last_sent /\ last_seen[n] = clock
  /\ \E n \in DOMAIN last_sent : n \in first_sent

(***************************************************************************)
(* Claims about ais_worker                                                 *)
(***************************************************************************)
FixDist(a, b) == haversine_nm(a.lat, a.lon, b.lat, b.lon)

\* C6: any two accepted fixes of an MMSI, consecutive or not, whose acceptance
\* times are less than TELEPORT_TIME_SEC apart are at most TELEPORT_MOVE_NM
\* apart.
C6_AnyTwoFixes ==
  \A mmsi \in Mmsis : \A i, j \in DOMAIN fixes[mmsi] :
    (i < j /\ fixes[mmsi][j].time - fixes[mmsi][i].time < TELEPORT_TIME_SEC)
    => FixDist(fixes[mmsi][i], fixes[mmsi][j]) <= TELEPORT_MOVE_NM * NM

\* C6 as amended: any two consecutive accepted fixes of an MMSI whose
\* acceptance times are less than TELEPORT_TIME_SEC apart are at most
\* TELEPORT_MOVE_NM apart.
C6_ConsecutiveFixes ==
  \A mmsi \in Mmsis : \A i \in DOMAIN fixes[mmsi] :
    (i > 1 /\ fixes[mmsi][i].time - fixes[mmsi][i - 1].time < TELEPORT_TIME_SEC)
    => FixDist(fixes[mmsi][i - 1], fixes[mmsi][i]) <= TELEPORT_MOVE_NM * NM

\* a fix has just been accepted less than TELEPORT_TIME_SEC after the one
\* before it and away from it, and an earlier jump of the same vessel over
\* more than TELEPORT_MOVE_NM was accepted TELEPORT_TIME_SEC after its
\* predecessor
C6_Witness ==
  \E mmsi \in Mmsis :
    LET h == fixes[mmsi] IN
    /\ Len(h) = MaxFixes /\ ais_out # <<>> /\ ais_out[1].lat = h[Len(h)].lat
    /\ h[Len(h)].time - h[Len(h) - 1].time < TELEPORT_TIME_SEC
    /\ FixDist(h[Len(h) - 1], h[Len(h)]) > 0
    /\ \E i \in 2..Len(h) :
         /\ FixDist(h[i - 1], h[i]) > TELEPORT_MOVE_NM * NM
         /\ h[i].time - h[i - 1].time >= TELEPORT_TIME_SEC

\* C7: an ICAO hex without a track gains one (a hex_to_name entry, or a line
\* carrying the ICAO) only through a record at most ADD_DISTANCE_MI away.
C7_AdmitWithinAdd ==
  [][\A m \in run.feed :
       (/\ IsRecord(m)
        /\ ~Has(hex_to_name, m.icao)
        /\ \/ Has(hex_to_name', m.icao)
           \/ \E i \in DOMAIN out' : out'[i].icao = m.icao)
       => DistKbuf(m) <= ADD_DISTANCE_MI * MILE]_vars

\* C8: a record of a tracked aircraft beyond CLEAR_DISTANCE_MI writes exactly
\* one line, the delete of the track, and removes the track's entries; a
\* record beyond ADD_DISTANCE_MI of an aircraft without a track writes nothing.
C8_RangeClear ==
  [][\A m \in run.feed :
       IsRecord(m) =>
         LET n == TrackedName(m) IN
         /\ (Has(hex_to_name, m.icao) /\ Has(last_seen, n)
               /\ DistKbuf(m) > CLEAR_DISTANCE_MI * MILE)
            => /\ Len(out') = 1 /\ out'[1].del /\ out'[1].name = n
               /\ ~Has(last_seen', n) /\ ~Has(last_sent', n)
               /\ ~Has(hex_to_name', m.icao) /\ ~Has(name_to_hex', n)
               /\ ~Has(aircraft', n)
         /\ (~Has(hex_to_name, m.icao) /\ ~Has(last_seen, n)
               /\ DistKbuf(m) > ADD_DISTANCE_MI * MILE)
            => out' = <<>>]_vars

\* C9: a record for a name of the suppression set whose altitude is unknown or
\* at most LAND_CLEAR_ALT writes no line, changes no table and leaves the name
\* suppressed.
C9_SuppressedDropped ==
  [][\A m \in run.feed :
       (/\ IsRecord(m)
        /\ TrackedName(m) \in landed_block
        /\ (m.alt = None \/ Val(m.alt) <= LAND_CLEAR_ALT))
       => /\ out' = <<>>
          /\ UNCHANGED <<last_seen, last_sent, hex_to_name, name_to_hex, aircraft>>
          /\ TrackedName(m) \in landed_block']_vars

\* C10: when the records of a tracked aircraft have been low (known altitude
\* at most LANDED_ALT_FT) without a break for LANDED_WAIT_SEC or more, the
\* low record at hand removes the track, suppresses its name and, the socket
\* being writable, writes the delete of the track.
C10_DwellDelete ==
  [][\A m \in run.feed :
       (/\ IsRecord(m)
        /\ Has(hex_to_name, m.icao) /\ Has(low_run, m.icao)
        /\ IsLow(m)
        /\ clock - low_run[m.icao] >= LANDED_WAIT_SEC)
       => LET n == hex_to_name[m.icao] IN
          /\ ~Has(last_seen', n) /\ ~Has(last_sent', n)
          /\ ~Has(hex_to_name', m.icao)
          /\ n \in landed_block'
          /\ aprs_up => DeletesOf(out', n) # {}]_vars

\* record m is stopped by none of the gates before the rename (lines 342-409)
ReachesRename(m) ==
  LET n == TrackedName(m)
      s1 == LandedReenable(Tables, n, m.alt)
      s2 == IF IsLow(m) THEN LowAltStart(s1, n, clock) ELSE s1
      s3 == Throttle(s2, clock)
  IN /\ ~(Has(last_seen, n) /\ DistKbuf(m) > CLEAR_DISTANCE_MI * MILE)
     /\ ~(~Has(last_seen, n) /\ DistKbuf(m) > ADD_DISTANCE_MI * MILE)
     /\ ~LandedDrop(s1, n, m.alt)
     /\ ~(IsLow(m) /\ clock - s2.low_alt_since[n] >= LANDED_WAIT_SEC)
     /\ s3.sent_this_sec < MAX_PKTS_PER_SEC

DesiredName(m) == name_from_callsign_or_hex(m.callsign, m.icao)

\* C11: a record of a tracked ICAO whose desired name differs from the current
\* one, and which no earlier gate drops, writes exactly one delete line for the
\* old name, first and at the old name's last-sent position; every line after
\* it is an update under the new name; the old name leaves last_seen,
\* last_sent and name_to_hex, the last-sent record (or the record of the update
\* just written) is filed under the new name, and both maps name the new name.
C11_Rename ==
  [][\A m \in run.feed :
       (/\ IsRecord(m)
        /\ Has(hex_to_name, m.icao)
        /\ DesiredName(m) # hex_to_name[m.icao]
        /\ ReachesRename(m))
       => LET old == hex_to_name[m.icao]
              new == DesiredName(m)
          IN /\ Len(out') >= 1
             /\ out'[1] = DelLine(old, DelLat(Tables, old, m.lat))
             /\ \A i \in 2..Len(out') : ~out'[i].del /\ out'[i].name = new
             /\ ~Has(last_seen', old) /\ ~Has(last_sent', old)
             /\ ~Has(name_to_hex', old)
             /\ Has(last_sent, old) =>
                  /\ Has(last_sent', new)
                  /\ \/ last_sent'[new] = last_sent[old]
                     \/ Len(out') = 2 /\ last_sent'[new].time = clock
             /\ hex_to_name'[m.icao] = new
             /\ name_to_hex'[new] = m.icao]_vars

\* C12: a name that a step removes from last_seen has, after the step, no entry
\* in last_sent, low_alt_since, name_to_hex or the aircraft view model; and
\* every key of the aircraft view model is a tracked name with a last_sent
\* entry.
C12_DeletedEverywhere ==
  [][/\ \A n \in DOMAIN last_seen :
          n \notin DOMAIN last_seen' =>
            /\ ~Has(last_sent', n) /\ ~Has(low_alt_since', n)
            /\ ~Has(name_to_hex', n) /\ ~Has(aircraft', n)
     /\ DOMAIN aircraft' \subseteq DOMAIN last_seen' \cap DOMAIN last_sent']_vars

\* the step is the cleanup phase deleting the expired names in this order
IsSweep(order) ==
  /\ pc = "lines" /\ pc' = "recv" /\ clock' = clock
  /\ order \in Orders(to_delete(Tables, clock))
  /\ Commit(SweepAll(Tables, order, aprs_up))

\* C13: once a write (update or delete) has raised on the APRS-IS socket, the
\* worker makes no further send attempt on that socket: every aprs.send of a
\* record's handling and of the cleanup phase is made on a socket on which no
\* write has raised.
C13_NoSendOnFailedSocket ==
  [][/\ \A m \in run.feed :
          IsRecord(m) => ~ProcessRecord(Tables, m, clock, aprs_up).stale
     /\ \A order \in Orders(to_delete(Tables, clock)) :
          IsSweep(order) => ~SweepAll(Tables, order, aprs_up).stale]_vars

(***************************************************************************)
(* Claims about ais_worker fed with sentences                              *)
(***************************************************************************)
\* the step is the handling of this line of the feed
IsSentence(line) == line \in Sentences /\ AisHandle(line)

\* the line is one the parser rejects, or a complete message that no decoder
\* accepts (unsupported type, too short, empty)
Undecodable(line) ==
  LET r == parse_nmea(line, frag_store) IN
  \/ r.perr \in {"not_AIVDM", "short_line", "bad_frag_fields"}
  \/ r.perr = "" /\ Decoded[<<r.payload, r.fill>>].kind \in {"raise", "none"}

\* C14: the handling of a line that cannot be parsed or decoded writes no
\* line, leaves last_good, vessels, name_cache and the rate bucket unchanged
\* and does not close or reconnect the APRS-IS connection.
C14_UndecodableDropped ==
  [][\A line \in Sentences :
       (Undecodable(line) /\ IsSentence(line)) =>
         /\ ais_out' = <<>>
         /\ UNCHANGED <<last_good, vessels, name_cache, ais_last_sec,
                        ais_sent_this_sec>>
         /\ ~ais_redial']_vars

(***************************************************************************)
(* Claims about the JSON metadata poll                                     *)
(***************************************************************************)
\* the step is the poll of the loop head answered with body
IsPoll(body) ==
  /\ pc = "recv" /\ pc' = "recv" /\ clock' = clock
  /\ PollDue
  /\ body \in run.json
  /\ PollWith(body)

\* the body is an object with an aircraft array, or a bare array, of aircraft
\* objects
WellFormed(body) ==
  body.kind = "list" /\ \A i \in DOMAIN body.items : body.items[i].obj

\* C15: a poll answered with nothing or with a body that is not well formed
\* leaves the metadata cache and the tracked-object tables as they were, does
\* not close the SBS connection, and leaves the worker about to read the SBS
\* socket (the poll is not due again at once).
C15_FailedPollHarmless ==
  [][\A body \in run.json :
       (~WellFormed(body) /\ IsPoll(body)) =>
         /\ meta_cache' = meta_cache
         /\ ~sbs_redial'
         /\ UNCHANGED <<last_seen, last_sent, low_alt_since, landed_block,
                        hex_to_name, name_to_hex, aircraft>>
         /\ clock' - last_json_poll' < JSON_REFRESH_SEC]_vars

\* the static message (type 5 or 24) that the line completes, if any
StaticOf(line) ==
  LET r == parse_nmea(line, frag_store) IN
  IF r.perr = "" /\ Decoded[<<r.payload, r.fill>>].kind = "static"
  THEN <<Decoded[<<r.payload, r.fill>>].static_info>>
  ELSE <<>>

\* C16: the handling of a static message of an MMSI writes no line, leaves the
\* rate bucket, last_good and the APRS-IS connection unchanged, and changes
\* nothing but name_cache[mmsi] and, if the MMSI has a row in the vessel view
\* model, that row's name.
C16_StaticFrame ==
  [][\A line \in Sentences :
       (StaticOf(line) # <<>> /\ IsSentence(line)) =>
         LET mmsi == StaticOf(line)[1].mmsi IN
         /\ ais_out' = <<>>
         /\ UNCHANGED <<ais_last_sec, ais_sent_this_sec, last_good, ais_up>>
         /\ ~ais_redial'
         /\ \A k \in (DOMAIN name_cache \cup DOMAIN name_cache') \ {mmsi} :
              Has(name_cache, k) /\ Has(name_cache', k)
                /\ name_cache'[k] = name_cache[k]
         /\ DOMAIN vessels' = DOMAIN vessels
         /\ \A k \in DOMAIN vessels :
              IF k = mmsi
              THEN [vessels'[k] EXCEPT !.name = vessels[k].name] = vessels[k]
              ELSE vessels'[k] = vessels[k]]_vars

\* a static message has named a vessel that is in the view model
C16_Witness ==
  /\ Has(name_cache, Ship) /\ Has(vessels, Ship) /\ Has(last_good, Ship)
  /\ vessels[Ship].name = name_cache[Ship]
  /\ ais_out = <<>>

\* C17: every position line written for an MMSI that has a cached name carries
\* NAME with the name cached at that moment (the latest a static message
\* stored), and no step removes an MMSI from name_cache.
C17_NameCarried ==
  [][/\ \A i \in DOMAIN ais_out' : \A k \in DOMAIN name_cache :
          ais_out'[i].name = mmsi09(k) => ais_out'[i].vessel = name_cache[k]
     /\ DOMAIN name_cache \subseteq DOMAIN name_cache']_vars

\* a position line with a NAME part has been written
C17_Witness ==
  /\ ais_out # <<>>
  /\ ais_out[1].vessel # None
  /\ Has(name_cache, Ship) /\ ais_out[1].vessel = name_cache[Ship]

\* C19: in every line either worker writes, the object-name field is exactly
\* 9 characters long.
C19_NameWidth ==
  /\ \A i \in DOMAIN ais_out : Len(ais_out[i].name) = 9
  /\ \A i \in DOMAIN out : Len(out[i].name) = 9

\* the position record that the line completes and a decoder returns, if any
PositionOf(line) ==
  LET r == parse_nmea(line, frag_store) IN
  IF r.perr = "" /\ Decoded[<<r.payload, r.fill>>].kind = "position"
  THEN <<Decoded[<<r.payload, r.fill>>].info>>
  ELSE <<>>

\* C20: the position record a decoder hands to the rest of the handler (range
\* gate, teleport filter, emission) has a latitude within [-90, 90] degrees
\* and a longitude within [-180, 180] degrees.
C20_LatLonInRange ==
  [][\A line \in Sentences :
       (PositionOf(line) # <<>> /\ IsSentence(line)) =>
         /\ Abs(PositionOf(line)[1].lat) <= 90 * 10000
         /\ Abs(PositionOf(line)[1].lon) <= 180 * 10000]_vars

(***************************************************************************)
(* Claims about the APRS-IS connections                                    *)
(***************************************************************************)
\* the lines on the socket tag p holds: the login line first, and only there
LoginFirst(p) ==
  /\ wire[p] # <<>> => wire[p][1] = LoginLine(p)
  /\ \A i \in DOMAIN wire[p] : i > 1 => wire[p][i].kind = "object"
  /\ conn_pc[p] = "ready" => wire[p] # <<>>

\* C18: on the socket a worker holds, the login line is the first line and
\* the only login line, and connect_aprs has returned only after writing it;
\* a retry follows a failed attempt only after the whole sleep; and if from
\* some point on the server accepts, every call of connect_aprs returns (each
\* worker holds a connection again and again).
C18_LoginFirstAndEventually ==
  /\ [](\A p \in Tags : LoginFirst(p))
  /\ [][\A p \in Tags :
          (conn_pc[p] = "sleep" /\ conn_pc'[p] # "sleep") => nap[p] = 0]_vars
  /\ \A p \in Tags : <>[]accepts => []<>(conn_pc[p] = "ready")

\* one worker has written object lines on its connection while the other,
\* after failed attempts, sleeps before the next one
C18_Witness ==
  /\ conn_pc["ADSB2APRS"] = "ready" /\ Len(wire["ADSB2APRS"]) = MaxWire
  /\ conn_pc["AIS2APRS"] = "sleep" /\ nap["AIS2APRS"] = RETRY_SEC
  /\ ~accepts

(***************************************************************************)
(* Claims about parse_nmea                                                 *)
(***************************************************************************)
\* the fragment numbers frag_store holds under the key of the line
HeldNumbers(line) ==
  IF Has(frag_store, <<line.seq, line.chan>>)
  THEN DOMAIN frag_store[<<line.seq, line.chan>>].payloads
  ELSE {}

\* the payloads of fragments 1..n under the key of the line once the line is
\* added, in ascending fragment number
RECURSIVE InOrder(_, _, _)
InOrder(line, i, n) ==
  IF i > n THEN <<>>
  ELSE (IF i = line.fragnum.v THEN line.payload
        ELSE frag_store[<<line.seq, line.chan>>].payloads[i])
         \o InOrder(line, i + 1, n)

\* C21: for a fragment of a message of n >= 2 fragments, parse_nmea returns a
\* payload exactly when the fragment is the last one missing of the fragments
\* 1..n under its key, and then returns the payloads of fragments 1..n in
\* ascending order with the fill-bit count of this fragment.
C21_Reassembly ==
  \A line \in FragLines :
    line.fragcount.v >= 2 =>
      LET n == line.fragcount.v
          r == parse_nmea(line, frag_store)
          last_missing == (1..n) \ HeldNumbers(line) = {line.fragnum.v}
      IN /\ (r.perr = "") <=> last_missing
         /\ (r.perr = "" /\ last_missing) =>
              r.payload = InOrder(line, 1, n) /\ r.fill = line.fill.v

\* C30: every entry of frag_store holds fewer distinct fragment numbers than
\* its declared total.
C30_EntriesCompletable ==
  \A key \in DOMAIN frag_store :
    Cardinality(DOMAIN frag_store[key].payloads) < frag_store[key].total

(***************************************************************************)
(* Claims about the send decision and the gates of adsb_worker             *)
(***************************************************************************)
\* the last-sent record of the track of the record's ICAO, if any
TrackSent(m) ==
  IF Has(hex_to_name, m.icao) THEN Get(last_sent, hex_to_name[m.icao]) ELSE None

\* some delta between the last-sent state and the record reaches its epsilon
DeltaReached(prev, m) ==
  \/ Abs(m.lat - prev.lat) >= EPS_LATLON_E5
  \/ Abs(m.lon - prev.lon) >= EPS_LATLON_E5
  \/ (m.alt = None) # (prev.alt = None)
  \/ (m.alt # None /\ prev.alt # None /\ Abs(Val(m.alt) - Val(prev.alt)) >= EPS_ALT_FT)
  \/ (m.trk = None) # (prev.trk = None)
  \/ (m.trk # None /\ prev.trk # None /\
      LET d == Abs(Val(m.trk) - Val(prev.trk)) % 3600
      IN (IF d < 3600 - d THEN d ELSE 3600 - d) >= EPS_TRK_DEG * 10)
  \/ (m.gs = None) # (prev.gs = None)
  \/ (m.gs # None /\ prev.gs # None /\ Abs(Val(m.gs) - Val(prev.gs)) >= EPS_GS_KT)

\* the handling of the record calls aprs.send for an update line
UpdateAttempted(m) ==
  LET r == ProcessRecord(Tables, m, clock, aprs_up)
  IN r.reconnect \/ \E i \in DOMAIN r.out : ~r.out[i].del

\* C22: a record that passed the range, landing and rate gates is sent (an
\* update line is attempted) if and only if its track has no last-sent record,
\* or it is at least MIN_MOVE_MI from the last-sent position, or at least
\* MIN_UPDATE_SEC have passed since the last send and some state delta reaches
\* its epsilon.
C22_SendDecision ==
  [][\A m \in run.feed :
       (IsRecord(m) /\ ReachesRename(m)) =>
         LET prev == TrackSent(m) IN
         UpdateAttempted(m) <=>
           \/ prev = None
           \/ haversine_miles(prev.lat, prev.lon, m.lat, m.lon)
                >= MIN_MOVE_MI_X100 * (MILE \div 100)
           \/ /\ clock - prev.time >= MIN_UPDATE_SEC
              /\ DeltaReached(prev.state, m)]_vars

\* C23: a record with a known altitude above LAND_CLEAR_ALT, for a name in
\* the landed suppression set, takes the name out of the set and discards its
\* low-altitude timer, and goes on through the normal flow: within
\* ADD_DISTANCE_MI and with room in the rate bucket, it is sent as the first
\* update of a new track (the name had no last-sent record).
C23_ClimbReenables ==
  [][\A m \in run.feed :
       (/\ IsRecord(m)
        /\ TrackedName(m) \in landed_block
        /\ m.alt # None /\ Val(m.alt) > LAND_CLEAR_ALT)
       => LET n == TrackedName(m) IN
          /\ n \notin landed_block'
          /\ ~Has(low_alt_since', n)
          /\ (/\ DistKbuf(m) <= ADD_DISTANCE_MI * MILE
              /\ Throttle(Tables, clock).sent_this_sec < MAX_PKTS_PER_SEC)
             => ~Has(last_sent, n) /\ UpdateAttempted(m)]_vars


(***************************************************************************)
(* Claims about the fixes ais_worker keeps                                  *)
(***************************************************************************)
\* the step handles the position record info
IsPosition(info) == HandlePosition(info) /\ UNCHANGED <<clock, frag_store>>

\* the step wrote a line for mmsi with the fix (lat, lon)
Written(lines, mmsi, lat, lon) ==
  \E i \in DOMAIN lines :
    lines[i].name = mmsi09(mmsi) /\ lines[i].lat = lat /\ lines[i].lon = lon

\* C24: last_good[mmsi] and the position of the view-model entry of mmsi
\* change only to the fix of a record whose line the same step wrote, and no
\* entry is removed; a position record that is rejected (near (0,0), out of
\* range, teleport, over the rate cap) or whose write fails leaves last_good
\* and vessels unchanged.
C24_FixOnlyWhenWritten ==
  [][/\ DOMAIN last_good \subseteq DOMAIN last_good'
     /\ DOMAIN vessels \subseteq DOMAIN vessels'
     /\ \A k \in DOMAIN last_good' :
          (k \notin DOMAIN last_good \/ last_good'[k] # last_good[k]) =>
            /\ last_good'[k].time = clock
            /\ Written(ais_out', k, last_good'[k].lat, last_good'[k].lon)
     /\ \A k \in DOMAIN vessels' :
          (\/ k \notin DOMAIN vessels
           \/ vessels'[k].lat # vessels[k].lat
           \/ vessels'[k].lon # vessels[k].lon) =>
            Written(ais_out', k, vessels'[k].lat, vessels'[k].lon)
     /\ \A info \in AisInfos :
          (IsPosition(info) /\ ais_out' = <<>>) =>
            UNCHANGED <<last_good, vessels>>]_vars

\* a write has just failed for a record while an earlier fix is on file, and
\* another vessel is in the view model
C24_Witness ==
  /\ ais_redial
  /\ \E k \in DOMAIN last_good : last_good[k].time < clock
  /\ vessels # EmptyDict


(***************************************************************************)
(* Claims about the rate bucket of adsb_worker                              *)
(***************************************************************************)
\* record m gets as far as the throttle of lines 404-409
ReachesThrottle(m) ==
  LET n == TrackedName(m)
      s1 == LandedReenable(Tables, n, m.alt)
      s2 == IF IsLow(m) THEN LowAltStart(s1, n, clock) ELSE s1
  IN /\ ~(Has(last_seen, n) /\ DistKbuf(m) > CLEAR_DISTANCE_MI * MILE)
     /\ ~(~Has(last_seen, n) /\ DistKbuf(m) > ADD_DISTANCE_MI * MILE)
     /\ ~LandedDrop(s1, n, m.alt)
     /\ ~(IsLow(m) /\ clock - s2.low_alt_since[n] >= LANDED_WAIT_SEC)

\* the update lines among lines
Updates(lines) == {i \in DOMAIN lines : ~lines[i].del}

\* C25: a record that reaches the throttle finds the bucket at 0 when it is
\* the first to do so in its second, and adds to it exactly the update lines
\* it wrote; a record that does not reach the throttle leaves the bucket
\* alone; a record that finds the bucket full writes no line (no update, no
\* rename) and leaves last_seen, last_sent, hex_to_name, name_to_hex and the
\* aircraft view model unchanged.
C25_Bucket ==
  [][\A m \in run.feed :
       IsRecord(m) =>
         LET base == IF clock # last_sec THEN 0 ELSE sent_this_sec IN
         IF ReachesThrottle(m)
         THEN /\ last_sec' = clock
              /\ sent_this_sec' = base + Cardinality(Updates(out'))
              /\ base >= MAX_PKTS_PER_SEC =>
                   /\ out' = <<>>
                   /\ UNCHANGED <<last_seen, last_sent, hex_to_name,
                                  name_to_hex, aircraft>>
         ELSE UNCHANGED <<last_sec, sent_this_sec>>]_vars

\* the bucket is full in the current second and the last record wrote nothing
C25_Witness ==
  /\ pc = "lines"
  /\ last_sec = clock
  /\ sent_this_sec >= MAX_PKTS_PER_SEC
  /\ out = <<>>
  /\ last_seen # EmptyDict

(***************************************************************************)
(* Claims about type-24 static messages                                     *)
(***************************************************************************)
\* the (payload, fill) pairs of the feed that are type-24 messages with
\* part number 1 (part B)
PartB ==
  {p \in Payloads :
     LET bits == BitsOf(p[1], p[2]) IN
     /\ ~u_raises(bits, 0, 6) /\ Len(bits) >= 160
     /\ _u(bits, 0, 6) = 24 /\ _u(bits, 38, 2) = 1}

\* C27: the handling of a type-24 message with part number 1 (part B) leaves
\* the name cache unchanged; only part A stores a name.
C27_PartBSkipped ==
  [][\A line \in Sentences :
       (/\ IsSentence(line)
        /\ LET r == parse_nmea(line, frag_store)
           IN r.perr = "" /\ <<r.payload, r.fill>> \in PartB)
       => UNCHANGED name_cache]_vars

(***************************************************************************)
(* Claims about the names of adsb_worker                                    *)
(***************************************************************************)
\* the lines of a step written for name n
LinesOf(lines, n) == {i \in DOMAIN lines : lines[i].name = n}

\* C28: for every name with a last_sent entry, the most recent line written
\* for the name is an update (non-delete) line: a step that gives a name a
\* last_sent entry writes a line for it, and the last line a step writes for
\* a name that has a last_sent entry after the step is an update line.
C28_LastLineIsUpdate ==
  [][\A n \in DOMAIN last_sent' :
       LET mine == LinesOf(out', n) IN
       /\ n \notin DOMAIN last_sent => mine # {}
       /\ \A i \in mine : (\A j \in mine : j <= i) => ~out'[i].del]_vars

\* C29: a record without callsign, for an ICAO tracked under a name derived
\* from a callsign, does not rename the ICAO to its hex-derived name.
C29_NoRenameBack ==
  [][\A m \in run.feed :
       (/\ IsRecord(m)
        /\ m.callsign = None
        /\ Has(hex_to_name, m.icao)
        /\ hex_to_name[m.icao] # name_from_callsign_or_hex(None, m.icao))
       => ~(/\ Has(hex_to_name', m.icao)
            /\ hex_to_name'[m.icao] = name_from_callsign_or_hex(None, m.icao))]_vars


(***************************************************************************)
(* Claims about the view models and the monitor windows                     *)
(***************************************************************************)
\* C26: the rows a refresh renders are the values vessels held at the instant
\* of its snapshot copy: nothing a writer changes after the copy is visible
\* in the refresh.
C26_RendersSnapshot ==
  [][(gui_pc = "render" /\ gui_pc' = "timer") => rows' = snapshot]_vars


(***************************************************************************)
(* Claims about the lifetime of AIS objects                                 *)
(***************************************************************************)
\* C31: ais_worker writes no delete line and removes no entry: every line it
\* writes is a live object line, and no step takes a key out of vessels,
\* last_good or name_cache, however long the vessel has been silent.
C31_AisOnlyGrows ==
  [][/\ \A i \in DOMAIN ais_out' : ais_out'[i].live
     /\ DOMAIN vessels \subseteq DOMAIN vessels'
     /\ DOMAIN last_good \subseteq DOMAIN last_good'
     /\ DOMAIN name_cache \subseteq DOMAIN name_cache']_vars

\* a vessel emitted and named, silent for TELEPORT_TIME_SEC, is still in the
\* view model after a line of the feed raised in the handler
C31_Witness ==
  /\ Has(vessels, Ship) /\ Has(last_good, Ship) /\ Has(name_cache, Ship)
  /\ clock - last_good[Ship].time >= TELEPORT_TIME_SEC
  /\ ais_redial

====
